---- MODULE Spec2Model ----
(***************************************************************************)
(* Grant matching pipeline of heehaw1234/grantdaddy:                       *)
(*   services/semanticMatcher.ts (src/unnamed/part_010): result cache,     *)
(*     batching, parseScoreResponse, scoreGrantBatch with retries,         *)
(*     scoreGrantsSemantically, filterByThreshold, clearCache;             *)
(*   services/grantMatcher.ts: fetchAllActiveGrants, fetchUserPreferences, *)
(*     searchGrants.                                                       *)
(* Text that the code inspects (queries, issue areas, scopes) is a tuple   *)
(* of one-character strings, so that toLowerCase, trim and includes are    *)
(* computed.  An optional scalar of a service answer is a tuple: <<>> when *)
(* the field is absent, <<v>> when it is present.                          *)
(***************************************************************************)
EXTENDS Integers, Sequences, FiniteSets, TLC

(***************************************************************************)
(* Bounds of the model.                                                    *)
(***************************************************************************)
\* CONFIG.BATCH_SIZE is 8 in the source; the batching code is parametric in
\* it and the model runs it with a smaller value.
BATCH_SIZE == 2
\* searchGrants calls started in one behaviour
MaxSearches == 2
\* clock steps in one behaviour
MaxTicks == 2
\* the day on which the searches run (new Date() of the candidate fetch)
Today == 10

(***************************************************************************)
(* Program constants.                                                      *)
(***************************************************************************)
MIN_SCORE_THRESHOLD == 30
PREFERENCE_BOOST == 5
CACHE_TTL_MS == 5 * 60 * 1000
MAX_RETRIES == 3
NEUTRAL_SCORE == 50
SEARCH_THRESHOLD == 30
FUNDING_MAX_OPEN == 500000

\* one step of the clock (Date.now()), half a TTL
ClockStep == CACHE_TTL_MS \div 2

(***************************************************************************)
(* JavaScript values.                                                      *)
(***************************************************************************)
\* null / undefined for a text, for a list of reasons and for a number
NullStr == <<"null">>
Undefined == <<"undefined">>
NullNum == 0 - 1

Max(a, b) == IF a >= b THEN a ELSE b
Min(a, b) == IF a <= b THEN a ELSE b

\* String.prototype.toLowerCase over the alphabet of the model
LowerChar(c) ==
    CASE c = "A" -> "a" [] c = "E" -> "e" [] c = "L" -> "l" [] c = "N" -> "n"
      [] c = "R" -> "r" [] c = "T" -> "t" [] c = "V" -> "v" [] c = "Q" -> "q"
      [] c = "O" -> "o" [] c = "C" -> "c" [] c = "S" -> "s" [] c = "Y" -> "y"
      [] c = "U" -> "u" [] c = "H" -> "h"
      [] OTHER -> c

toLowerCase(s) == [i \in 1..Len(s) |-> LowerChar(s[i])]

RECURSIVE trimStart(_)
trimStart(s) == IF s # <<>> /\ Head(s) = " " THEN trimStart(Tail(s)) ELSE s

RECURSIVE trimEnd(_)
trimEnd(s) ==
    IF s # <<>> /\ s[Len(s)] = " " THEN trimEnd(SubSeq(s, 1, Len(s) - 1)) ELSE s

\* String.prototype.trim
trim(s) == trimEnd(trimStart(s))

\* String.prototype.includes
includes(s, sub) ==
    \E i \in 0..(Len(s) - Len(sub)) : SubSeq(s, i + 1, i + Len(sub)) = sub

RECURSIVE Flat(_)
\* Array.prototype.flat
Flat(ss) == IF ss = <<>> THEN <<>> ELSE Head(ss) \o Flat(Tail(ss))

Range(s) == {s[i] : i \in 1..Len(s)}

(***************************************************************************)
(* The grants table (types/database.ts, Grant) and the candidate fetch.    *)
(***************************************************************************)
Grant(id, area, scope, fmin, fmax, due, active) ==
    [id |-> id, issue_area |-> area, scope |-> scope, funding_min |-> fmin,
     funding_max |-> fmax, application_due_date |-> due, is_active |-> active]

AreaEnv == <<"E", "n", "v">>
AreaArt == <<"A", "r", "t">>
ScopeNat == <<"n", "a", "t">>
ScopeLoc == <<"l", "o", "c">>

\* The rows of the grants table, in table order.  g4 is inactive, g5 is
\* expired, g2 has no deadline and no upper funding bound, g3 no lower bound.
GrantsTable ==
    << Grant("g1", AreaEnv, ScopeNat, 10000, 40000, Today + 10, TRUE),
       Grant("g2", AreaArt, ScopeLoc, 100000, NullNum, NullNum, TRUE),
       Grant("g3", AreaEnv, ScopeLoc, NullNum, 30000, Today + 5, TRUE),
       Grant("g4", AreaEnv, ScopeNat, 10000, 40000, Today + 10, FALSE),
       Grant("g5", AreaArt, ScopeNat, 10000, 40000, Today - 5, TRUE) >>

GrantIds == {GrantsTable[i].id : i \in 1..Len(GrantsTable)}

\* the hard filters of a search (filters?: {issueArea, scope, fundingMin, fundingMax})
Filters(area, scope, fmin, fmax) ==
    [issueArea |-> area, scope |-> scope, fundingMin |-> fmin, fundingMax |-> fmax]

\* a text is truthy when it is neither null nor empty
TruthyStr(s) == s # NullStr /\ s # <<>>

\* column ILIKE '%pattern%': false on a null column
ilike(col, pattern) ==
    col # NullStr /\ includes(toLowerCase(col), toLowerCase(pattern))

\* column >= v and column <= v: false on a null column
gte(col, v) == col # NullNum /\ col >= v
lte(col, v) == col # NullNum /\ col <= v

\* the predicate that fetchAllActiveGrants builds from the filters
FetchPredicate(g, f) ==
    /\ g.is_active
    /\ TruthyStr(f.issueArea) => ilike(g.issue_area, f.issueArea)
    /\ TruthyStr(f.scope) => ilike(g.scope, f.scope)
    /\ (f.fundingMin # 0 /\ f.fundingMin > 0) => gte(g.funding_max, f.fundingMin)
    /\ (f.fundingMax # 0 /\ f.fundingMax < FUNDING_MAX_OPEN)
          => lte(g.funding_min, f.fundingMax)
    /\ \/ gte(g.application_due_date, Today)
       \/ g.application_due_date = NullNum

\* ORDER BY application_due_date ASC (nulls last)
DueBefore(a, b) ==
    /\ a.application_due_date # NullNum
    /\ \/ b.application_due_date = NullNum
       \/ a.application_due_date < b.application_due_date

RECURSIVE InsertByDue(_, _)
InsertByDue(g, sorted) ==
    IF sorted = <<>> THEN <<g>>
    ELSE IF DueBefore(g, Head(sorted)) THEN <<g>> \o sorted
    ELSE <<Head(sorted)>> \o InsertByDue(g, Tail(sorted))

RECURSIVE OrderByDue(_)
OrderByDue(rows) ==
    IF rows = <<>> THEN <<>>
    ELSE InsertByDue(rows[Len(rows)], OrderByDue(SubSeq(rows, 1, Len(rows) - 1)))

\* fetchAllActiveGrants, when the storage read succeeds
fetchAllActiveGrants(f) ==
    OrderByDue(SelectSeq(GrantsTable, LAMBDA g : FetchPredicate(g, f)))

(***************************************************************************)
(* semanticMatcher.ts: scores, cache key, batching, answer parsing.        *)
(***************************************************************************)
GrantScore(id, score, reasons, wm, wdnm) ==
    [grantId |-> id, score |-> score, reasons |-> reasons,
     whyMatches |-> wm, whyDoesNotMatch |-> wdnm]

\* getCacheKey: `${query.toLowerCase().trim()}_${grantCount}`
getCacheKey(query, grantCount) == <<trim(toLowerCase(query)), grantCount>>

RECURSIVE batchGrants(_, _)
\* batchGrants: slices of batchSize items, the last one shorter
batchGrants(items, batchSize) ==
    IF items = <<>> THEN <<>>
    ELSE IF Len(items) <= batchSize THEN <<items>>
    ELSE <<SubSeq(items, 1, batchSize)>>
             \o batchGrants(SubSeq(items, batchSize + 1, Len(items)), batchSize)

\* The texts of the reasons.  The scoring service writes the first three.
ReasonFit == "Supports your focus area"
ReasonNot == "Not open to individuals"
ReasonLimit == "Funding LIMIT is low"
MatchAnalysisComplete == "Match analysis complete"
PotentialMatchFound == "Potential match found"
CouldNotAnalyze == "Could not analyze - showing as potential match"
CouldNotFullyAnalyze == "Could not fully analyze - shown as potential match"
AnalysisIncomplete == "Analysis incomplete due to service error"
MatchesYourPreferences == "Matches your preferences"
MatchesYourProfilePreferences == "Matches your profile preferences"

\* r.toLowerCase() includes 'not', 'concern' or 'limit', over the texts above
IsConcern(r) == r \in {ReasonNot, ReasonLimit, CouldNotAnalyze, CouldNotFullyAnalyze}

\* One entry of a service answer: the fields parseScoreResponse reads.
\* isNull: the entry is JSON null (reading a property of it throws).
Item(id, index, score, reason, reasons, wm, wdnm) ==
    [isNull |-> FALSE, id |-> id, index |-> index, score |-> score, reason |-> reason,
     reasons |-> reasons, whyMatches |-> wm, whyDoesNotMatch |-> wdnm]

NullItem ==
    [isNull |-> TRUE, id |-> <<>>, index |-> <<>>, score |-> <<>>, reason |-> <<>>,
     reasons |-> Undefined, whyMatches |-> Undefined, whyDoesNotMatch |-> Undefined]

\* item.id, or the id of grants[item.index - 1]; '' when there is neither
ItemGrantId(item, grants) ==
    IF item.id # <<>> /\ item.id[1] # "" THEN item.id[1]
    ELSE IF item.index # <<>> /\ item.index[1] - 1 \in 0..(Len(grants) - 1)
         THEN grants[item.index[1]].id
         ELSE ""

\* the legacy reasons of an entry: item.reasons, else [item.reason], else []
ItemReasons(item) ==
    IF item.reasons # Undefined THEN item.reasons
    ELSE IF item.reason # <<>> /\ item.reason[1] # "" THEN <<item.reason[1]>>
    ELSE <<>>

\* v || []
OrEmptyList(v) == IF v = Undefined THEN <<>> ELSE v

\* ClampScore without its Math.min(100, ...)
ClampScoreNoCeiling(score) == Max(0, IF score = <<>> THEN 0 ELSE score[1])

\* Math.min(100, Math.max(0, item.score || 0))
ClampScore(score) == Min(100, Max(0, IF score = <<>> THEN 0 ELSE score[1]))

\* the body of parsed.map(...) in parseScoreResponse
ParseItem(item, grants) ==
    LET reasons == ItemReasons(item)
        wm0 == OrEmptyList(item.whyMatches)
        wdnm0 == OrEmptyList(item.whyDoesNotMatch)
        split == Len(reasons) > 0 /\ Len(wm0) = 0
        whyMatches ==
            IF split THEN wm0 \o SelectSeq(reasons, LAMBDA r : ~IsConcern(r)) ELSE wm0
        whyDoesNotMatch ==
            IF split THEN wdnm0 \o SelectSeq(reasons, LAMBDA r : IsConcern(r)) ELSE wdnm0
        combined == whyMatches \o whyDoesNotMatch
    IN  GrantScore(ItemGrantId(item, grants),
                   ClampScore(item.score),
                   IF Len(combined) > 0 THEN combined ELSE <<MatchAnalysisComplete>>,
                   IF Len(whyMatches) > 0 THEN whyMatches ELSE <<PotentialMatchFound>>,
                   whyDoesNotMatch)

\* A service answer (message.content) after JSON.parse:
\*   kind "invalid": not JSON, JSON.parse throws;
\*   kind "scalar":  JSON null, a number or a text;
\*   kind "array":   an array, items its entries;
\*   kind "object":  an object, arrays its array-valued properties in order.
\*   kind "none":    no answer (the call threw).
NoContent == [kind |-> "none", items |-> <<>>, arrays |-> <<>>]
InvalidContent == [kind |-> "invalid", items |-> <<>>, arrays |-> <<>>]
ScalarContent == [kind |-> "scalar", items |-> <<>>, arrays |-> <<>>]
ArrayContent(items) == [kind |-> "array", items |-> items, arrays |-> <<>>]
ObjectContent(arrays) == [kind |-> "object", items |-> <<>>, arrays |-> arrays]

\* parseScoreResponse
parseScoreResponse(response, grants) ==
    LET parsed ==
            IF response.kind = "array" THEN <<response.items>>
            ELSE IF response.kind = "object" /\ response.arrays # <<>>
                 THEN <<response.arrays[1]>>
                 ELSE <<>>
    IN  IF parsed = <<>> THEN <<>>
        ELSE IF \E i \in 1..Len(parsed[1]) : parsed[1][i].isNull THEN <<>>
        ELSE SelectSeq([i \in 1..Len(parsed[1]) |-> ParseItem(parsed[1][i], grants)],
                       LAMBDA s : s.grantId # "")

\* a failed batch that yields no scores
NeutralScoresNone(grants) == <<>>

\* the default scores of a batch whose call failed
NeutralScores(grants) ==
    [i \in 1..Len(grants) |->
        GrantScore(grants[i].id, NEUTRAL_SCORE, <<CouldNotAnalyze>>,
                   <<CouldNotFullyAnalyze>>, <<AnalysisIncomplete>>)]

(***************************************************************************)
(* The aggregation of scoreGrantsSemantically and the result shaping of    *)
(* searchGrants.                                                           *)
(***************************************************************************)
\* the position of the entry of grantId in a list of scores, 0 when absent
IndexOfId(scores, grantId) ==
    IF \E i \in 1..Len(scores) : scores[i].grantId = grantId
    THEN CHOOSE i \in 1..Len(scores) : scores[i].grantId = grantId
    ELSE 0

\* a deduplication in which the last entry of a grant wins
KeepLast(scoreMap, score) ==
    LET i == IndexOfId(scoreMap, score.grantId)
    IN  IF i = 0 THEN Append(scoreMap, score)
        ELSE [scoreMap EXCEPT ![i] = score]

\* one iteration of the deduplication loop: scoreMap.set when the id is new
\* or the score is higher than the one kept
KeepHighest(scoreMap, score) ==
    LET i == IndexOfId(scoreMap, score.grantId)
    IN  IF i = 0 THEN Append(scoreMap, score)
        ELSE IF score.score > scoreMap[i].score
             THEN [scoreMap EXCEPT ![i] = score]
             ELSE scoreMap

RECURSIVE Deduplicate(_, _)
\* the deduplication loop over allScoresRaw, from the map built so far
Deduplicate(scoreMap, raw) ==
    IF raw = <<>> THEN scoreMap
    ELSE Deduplicate(KeepHighest(scoreMap, Head(raw)), Tail(raw))

\* UserMatchPreferences: undefined, or the stored issue areas
NoPrefs == [defined |-> FALSE, issueAreas |-> <<>>]
Prefs(areas) == [defined |-> TRUE, issueAreas |-> areas]

\* grantsMap.get(id): the candidates with that id (none or one)
GrantsWithId(grants, id) == {g \in Range(grants) : g.id = id}

\* userPrefs.issueAreas.some(area => grant.issue_area?.toLowerCase().includes(area.toLowerCase()))
MatchesPreference(grant, userPrefs) ==
    /\ grant.issue_area # NullStr
    /\ \E k \in 1..Len(userPrefs.issueAreas) :
          includes(toLowerCase(grant.issue_area), toLowerCase(userPrefs.issueAreas[k]))

\* a preference that lowers the score
BoostedScorePenalty(score) == Max(0, score - PREFERENCE_BOOST)

\* a boost without its Math.min(100, ...)
BoostedScoreNoCap(score) == score + PREFERENCE_BOOST

\* the score of a boosted grant
BoostedScore(score) == Min(100, score + PREFERENCE_BOOST)

\* the body of allScores.map(...) of the preference boost
BoostOne(score, grants, userPrefs) ==
    IF \E g \in GrantsWithId(grants, score.grantId) : MatchesPreference(g, userPrefs)
    THEN [score EXCEPT !.score = BoostedScore(score.score),
                       !.reasons = Append(score.reasons, MatchesYourPreferences),
                       !.whyMatches = Append(score.whyMatches, MatchesYourProfilePreferences)]
    ELSE score

\* the preference boost: only when userPrefs has issue areas
ApplyBoost(scores, grants, userPrefs) ==
    IF userPrefs.defined /\ Len(userPrefs.issueAreas) > 0
    THEN [i \in 1..Len(scores) |-> BoostOne(scores[i], grants, userPrefs)]
    ELSE scores

RECURSIVE InsertByScore(_, _)
InsertByScore(x, sorted) ==
    IF sorted = <<>> THEN <<x>>
    ELSE IF x.score > Head(sorted).score THEN <<x>> \o sorted
    ELSE <<Head(sorted)>> \o InsertByScore(x, Tail(sorted))

RECURSIVE SortByScore(_)
\* allScores.sort((a, b) => b.score - a.score): descending, stable
SortByScore(scores) ==
    IF scores = <<>> THEN <<>>
    ELSE InsertByScore(scores[Len(scores)],
                       SortByScore(SubSeq(scores, 1, Len(scores) - 1)))

\* scoreGrantsSemantically after Promise.all: flatten, deduplicate, boost, sort
Aggregate(allBatchResults, grants, userPrefs) ==
    SortByScore(ApplyBoost(Deduplicate(<<>>, Flat(allBatchResults)), grants, userPrefs))

\* filterByThreshold
filterByThreshold(scores, threshold) ==
    SelectSeq(scores, LAMBDA s : s.score >= threshold)

\* GrantWithScore: the grant with the fields of its score
GrantWithScore(grant, score) ==
    [grant |-> grant, matchScore |-> score.score, matchReasons |-> score.reasons,
     whyMatches |-> score.whyMatches, whyDoesNotMatch |-> score.whyDoesNotMatch]

\* a mapping that keeps the scores of ids that are no candidates
MapToGrantsUnchecked(scores, grants) ==
    [i \in 1..Len(scores) |->
        GrantWithScore(IF GrantsWithId(grants, scores[i].grantId) # {}
                       THEN CHOOSE g \in GrantsWithId(grants, scores[i].grantId) : TRUE
                       ELSE Grant(scores[i].grantId, NullStr, NullStr, NullNum, NullNum,
                                  NullNum, TRUE),
                       scores[i])]

\* .map(score => grantsMap.get(score.grantId) ...).filter(g => g !== null)
MapToGrants(scores, grants) ==
    LET known == SelectSeq(scores, LAMBDA s : GrantsWithId(grants, s.grantId) # {})
    IN  [i \in 1..Len(known) |->
            GrantWithScore(CHOOSE g \in GrantsWithId(grants, known[i].grantId) : TRUE,
                           known[i])]

\* searchGrants after the scores are in: threshold 30, then the mapping
ShapeResults(scores, grants) ==
    MapToGrants(filterByThreshold(scores, SEARCH_THRESHOLD), grants)

(***************************************************************************)
(* The result cache.                                                       *)
(***************************************************************************)
\* an entry that is still fresh when it is exactly CACHE_TTL_MS old
IsFreshInclusive(cache, key, t) ==
    key \in DOMAIN cache /\ t - cache[key].timestamp <= CACHE_TTL_MS

\* resultCache.get(key) is defined and Date.now() - timestamp < CACHE_TTL_MS
IsFresh(cache, key, t) ==
    key \in DOMAIN cache /\ t - cache[key].timestamp < CACHE_TTL_MS

\* getCachedResults returns an entry (an array, also an empty one, is truthy)
CacheHit(cache, query, grantCount, t) ==
    IsFresh(cache, getCacheKey(query, grantCount), t)

getCachedResults(cache, query, grantCount) ==
    cache[getCacheKey(query, grantCount)].results

\* a write that adds its results to those of the entry it finds
cacheResultsMerged(cache, query, grantCount, results, t, writer) ==
    LET key == getCacheKey(query, grantCount)
    IN  [k \in DOMAIN cache \cup {key} |->
            IF k = key
            THEN [results |-> (IF key \in DOMAIN cache THEN cache[key].results ELSE <<>>)
                                  \o results,
                  timestamp |-> t, writer |-> writer]
            ELSE cache[k]]

\* cacheResults: resultCache.set(key, {results, timestamp: Date.now()});
\* writer is the search that wrote the entry (history, not read by the code)
cacheResults(cache, query, grantCount, results, t, writer) ==
    LET key == getCacheKey(query, grantCount)
    IN  [k \in DOMAIN cache \cup {key} |->
            IF k = key THEN [results |-> results, timestamp |-> t, writer |-> writer]
            ELSE cache[k]]

\* resultCache.clear()
EmptyCache == [k \in {} |-> [results |-> <<>>, timestamp |-> 0, writer |-> 0]]

(***************************************************************************)
(* The scoring service and the API keys.                                   *)
(***************************************************************************)
\* API_KEYS reads up to three keys from the environment
MaxKeys == 3

\* messages of the errors the service call throws
ErrTooManyRequests == "429 Too Many Requests"
ErrRateLimit == "rate_limit_exceeded"
ErrConnection == "Connection error"

\* errorMessage.includes('429') || errorMessage.includes('rate')
isRateLimit(errorMessage) == errorMessage \in {ErrTooManyRequests, ErrRateLimit}

\* Math.pow(2, retryCount) * 1000
RetryDelay(retryCount) == (2 ^ retryCount) * 1000

(***************************************************************************)
(* parseGrantQuery: the query interpreter (groq.ts and gemini.ts).         *)
(***************************************************************************)
\* parseConfidence in tenths: parsed.parseConfidence || 0.5, and 0.1 in
\* the fallback; keywords of the fallback are longer than 3 characters
CONFIDENCE_DEFAULT == 5
CONFIDENCE_FALLBACK == 1
KEYWORD_MIN_LENGTH == 3

RECURSIVE SplitFrom(_, _, _, _)
\* the tokens of s from position i on, with cur the token being read and
\* tokens the tokens read: a run of blanks is one separator
SplitFrom(s, i, cur, tokens) ==
    IF i > Len(s) THEN Append(tokens, cur)
    ELSE IF s[i] = " "
         THEN IF i > 1 /\ s[i - 1] = " "
              THEN SplitFrom(s, i + 1, cur, tokens)
              ELSE SplitFrom(s, i + 1, <<>>, Append(tokens, cur))
         ELSE SplitFrom(s, i + 1, Append(cur, s[i]), tokens)

\* String.prototype.split(/\s+/)
split(s) == SplitFrom(s, 1, <<>>, <<>>)

\* userQuery.toLowerCase().split(/\s+/).filter(w => w.length > 3)
FallbackKeywords(userQuery) ==
    SelectSeq(split(toLowerCase(userQuery)), LAMBDA w : Len(w) > KEYWORD_MIN_LENGTH)

\* interface ParsedGrantQuery
ParsedGrantQuery(issueAreas, fundingMin, fundingMax, scope, urgency, deadlineBefore, keywords, organizationType, kpiPreferences, excludeTerms, originalQuery, parseConfidence) ==
    [issueAreas |-> issueAreas, fundingMin |-> fundingMin, fundingMax |-> fundingMax,
     scope |-> scope, urgency |-> urgency, deadlineBefore |-> deadlineBefore,
     keywords |-> keywords, organizationType |-> organizationType,
     kpiPreferences |-> kpiPreferences, excludeTerms |-> excludeTerms,
     originalQuery |-> originalQuery, parseConfidence |-> parseConfidence]

\* the catch block of parseGrantQuery
FallbackCriteria(userQuery) ==
    ParsedGrantQuery(<<>>, NullNum, NullNum, NullStr, NullStr, NullStr,
                     FallbackKeywords(userQuery), NullStr, <<>>, <<>>,
                     userQuery, CONFIDENCE_FALLBACK)

\* The text of a completion, by what JSON.parse makes of it: the empty
\* text, a text that is no JSON, null, a number or string or boolean, an
\* array, an object.  A property of the object is absent (Undefined or <<>>)
\* or has a value.
JsonObject(issueAreas, fundingMin, fundingMax, scope, keywords, parseConfidence) ==
    [kind |-> "object", issueAreas |-> issueAreas, fundingMin |-> fundingMin,
     fundingMax |-> fundingMax, scope |-> scope, urgency |-> <<>>,
     deadlineBefore |-> <<>>, keywords |-> keywords, organizationType |-> <<>>,
     kpiPreferences |-> Undefined, excludeTerms |-> Undefined,
     parseConfidence |-> parseConfidence]

\* the object {}
JsonEmptyObject == JsonObject(Undefined, <<>>, <<>>, <<>>, Undefined, <<>>)

JsonEmpty == [JsonEmptyObject EXCEPT !.kind = "empty"]
JsonInvalid == [JsonEmptyObject EXCEPT !.kind = "invalid"]
JsonNull == [JsonEmptyObject EXCEPT !.kind = "null"]
JsonScalar == [JsonEmptyObject EXCEPT !.kind = "scalar"]
JsonArray == [JsonEmptyObject EXCEPT !.kind = "array"]

\* parsed.x || null for a number (0 is falsy)
OrNullNum(v) == IF v = <<>> \/ v = <<0>> THEN NullNum ELSE v[1]

\* parsed.x || null for a text (the empty text is falsy)
OrNullStr(v) == IF v = <<>> \/ v = << <<>> >> THEN NullStr ELSE v[1]

\* parsed.parseConfidence || 0.5
OrDefaultConfidence(v) == IF v = <<>> \/ v = <<0>> THEN CONFIDENCE_DEFAULT ELSE v[1]

\* the return statement of the try block: a number, a string, a boolean and
\* an array have none of the properties read
CriteriaOf(parsed, userQuery) ==
    ParsedGrantQuery(OrEmptyList(parsed.issueAreas), OrNullNum(parsed.fundingMin),
                     OrNullNum(parsed.fundingMax), OrNullStr(parsed.scope),
                     OrNullStr(parsed.urgency), OrNullStr(parsed.deadlineBefore),
                     OrEmptyList(parsed.keywords), OrNullStr(parsed.organizationType),
                     OrEmptyList(parsed.kpiPreferences), OrEmptyList(parsed.excludeTerms),
                     userQuery, OrDefaultConfidence(parsed.parseConfidence))

\* the completion of the service: it throws (an error, a timeout) or it
\* answers with a text
CompletionError == [thrown |-> TRUE, error |-> "error", text |-> JsonEmpty]
CompletionTimeout == [thrown |-> TRUE, error |-> "timeout", text |-> JsonEmpty]
\* the completion call rejected with a rate-limit error (status 429)
CompletionRateLimit == [thrown |-> TRUE, error |-> "rate_limit_exceeded", text |-> JsonEmpty]
CompletionText(text) == [thrown |-> FALSE, error |-> "", text |-> text]

\* the text that JSON.parse gets: groq.ts reads message.content || '{}',
\* gemini.ts reads response.text() as it is
TextToParse(provider, text) ==
    IF provider = "groq" /\ text.kind = "empty" THEN JsonEmptyObject ELSE text

\* JSON.parse throws on a text that is no JSON; a property read of null
\* throws a TypeError
ParseThrows(text) == text.kind \in {"empty", "invalid", "null"}

\* parseGrantQuery, by the provider of the completion
parseGrantQuery(provider, userQuery, completion) ==
    IF completion.thrown \/ ParseThrows(TextToParse(provider, completion.text))
    THEN FallbackCriteria(userQuery)
    ELSE CriteriaOf(TextToParse(provider, completion.text), userQuery)

(***************************************************************************)
(* State.                                                                  *)
(***************************************************************************)
VARIABLES
    now,          \* Date.now(), in ms
    resultCache,  \* the module's Map from cache key to {results, timestamp}
    poolSize,     \* groqClients.length
    calls,        \* the searchGrants calls in progress, by caller
    nextId,       \* number of the next search
    parsing,      \* the parseGrantQuery call in progress
    email_notification_log,  \* the table: the (user_id, grant_id) pairs logged
    sentEmails,   \* the emails that Resend has accepted, in order
    runs,         \* the send-grant-alerts requests in progress, by request
    currentKeyIndex,  \* grantWriteupService.ts: index of the key in use
    writeup       \* the generateGrantWriteup call in progress

\* the state of send-grant-alerts and of grantWriteupService.ts
alertVars == <<email_notification_log, sentEmails, runs>>
writeupVars == <<currentKeyIndex, writeup>>

vars == <<now, resultCache, poolSize, calls, nextId, parsing, alertVars, writeupVars>>

Callers == {1, 2}

NoFilters == Filters(NullStr, NullStr, 0, FUNDING_MAX_OPEN)

\* A caller with no search in progress; op is the operation it runs when it
\* is not searchGrants, displayed, displayFilters and shown are the rendering
\* of the returned list, criteria and ranked are the criteria and the sorted
\* scores of the interpreter-based search.  The fields from cacheWrites to
\* entryWriter are
\* history that the code does not read: the number of cache writes, the
\* times of the cache read and of the cache write, the searches that had
\* returned and the writer of the entry of its key when it read the cache.
IdleCall ==
    [pc |-> "idle", id |-> 0, query |-> <<>>, hasUser |-> FALSE, useProfile |-> FALSE,
     filters |-> NoFilters, userPrefs |-> NoPrefs, grants |-> <<>>, batches |-> <<>>,
     cacheHit |-> FALSE, scores |-> <<>>, results |-> <<>>, storageError |-> "",
     cacheWrites |-> 0, scoredAt |-> 0, wroteAt |-> 0, priorIds |-> {}, entryWriter |-> 0,
     op |-> "searchGrants", displayed |-> FALSE, displayFilters |-> NoFilters,
     shown |-> <<>>, criteria |-> FallbackCriteria(<<>>), ranked |-> <<>>]

\* one scoreGrantBatch call chain: status is "calling" (awaiting the service),
\* "sleeping" (awaiting sleep(delay)) or "resolved"; calls counts the service
\* calls made; content is the answer received; outcome tells a parsed answer
\* from the neutral default
NewBatch(grants, clientIndex) ==
    [grants |-> grants, client |-> clientIndex, status |-> "calling", retryCount |-> 0,
     calls |-> 1, delay |-> 0, content |-> NoContent, result |-> <<>>,
     outcome |-> "pending", settledAs |-> 0]

\* a dispatch that sends every batch to the first credential
DispatchBatchesFirstKey(grants, clients) ==
    LET batches == batchGrants(grants, BATCH_SIZE)
    IN  [i \in 1..Len(batches) |-> NewBatch(batches[i], 0)]

\* batches.map((batch, index) => scoreGrantBatch(..., groqClients[index % length]))
DispatchBatches(grants, clients) ==
    LET batches == batchGrants(grants, BATCH_SIZE)
    IN  [i \in 1..Len(batches) |-> NewBatch(batches[i], (i - 1) % clients)]

AllResolved(batches) == \A i \in 1..Len(batches) : batches[i].status = "resolved"

\* the number of batch promises that have settled
Settled(batches) == Cardinality({i \in 1..Len(batches) : batches[i].status = "resolved"})

\* results taken in the order in which the batch promises settled
BatchResultsAsSettled(batches) ==
    [k \in 1..Len(batches) |->
        batches[CHOOSE i \in 1..Len(batches) : batches[i].settledAs = k].result]

\* allBatchResults of Promise.all: the results in the order of the promises
BatchResults(batches) == [i \in 1..Len(batches) |-> batches[i].result]

(***************************************************************************)
(* send-grant-alerts: the state of a request and of the writeup call.      *)
(***************************************************************************)
AlertRuns == {1, 2}

\* a request slot is used at most MaxAlertStarts times
MaxAlertStarts == 1

\* no request of the slot in progress
IdleRun ==
    [pc |-> "idle", starts |-> 0, resendApiKey |-> FALSE, queue |-> <<>>,
     matchingGrants |-> <<>>, newGrants |-> <<>>, toLog |-> <<>>,
     emailsSent |-> 0, results |-> <<>>]

\* the calls of a generateGrantWriteup are counted up to MaxWriteupCalls
MaxWriteupCalls == 6

\* no generateGrantWriteup in progress
IdleWriteup == [pc |-> "idle", serviceCalls |-> 0, result |-> <<>>, error |-> ""]

\* no parseGrantQuery call in progress
IdleParse ==
    [pc |-> "idle", provider |-> "", userQuery |-> <<>>, attempts |-> 0,
     completion |-> CompletionText(JsonEmpty), result |-> FallbackCriteria(<<>>)]

Init ==
    /\ now = 0
    /\ resultCache = EmptyCache
    /\ poolSize \in 1..MaxKeys
    /\ calls = [c \in Callers |-> IdleCall]
    /\ nextId = 1
    /\ parsing = IdleParse
    /\ email_notification_log = {}
    /\ sentEmails = <<>>
    /\ runs = [r \in AlertRuns |-> IdleRun]
    /\ currentKeyIndex = 0
    /\ writeup = IdleWriteup

(***************************************************************************)
(* searchGrants, one action per step between two awaits.                   *)
(***************************************************************************)
\* a read of user_preferences: an error, no row, or a row with issue_areas
PrefsRead(error, row, areas) == [error |-> error, row |-> row, issue_areas |-> areas]

\* fetchUserPreferences: null on an error or a missing row, else the row
\* with issue_areas || []
fetchUserPreferences(read) ==
    IF read.error \/ ~read.row THEN NoPrefs ELSE Prefs(OrEmptyList(read.issue_areas))

\* searchGrants(query, userId, filters, useProfilePreferences) up to its first
\* await: the preferences read when userId && useProfilePreferences, else
\* the candidate fetch
SearchStart(c, query, hasUser, filters, useProfile) ==
    /\ calls[c].pc = "idle"
    /\ nextId <= MaxSearches
    /\ calls' = [calls EXCEPT ![c] =
                    [IdleCall EXCEPT !.pc = IF hasUser /\ useProfile THEN "prefs" ELSE "fetch",
                                     !.id = nextId, !.query = query, !.hasUser = hasUser,
                                     !.useProfile = useProfile, !.filters = filters]]
    /\ nextId' = nextId + 1
    /\ UNCHANGED <<alertVars, writeupVars, now, resultCache, poolSize, parsing>>

\* fetchUserPreferences returns; searchGrants goes on to the candidate fetch
PrefsReturn(c, read) ==
    /\ calls[c].pc = "prefs"
    /\ calls' = [calls EXCEPT ![c].userPrefs = fetchUserPreferences(read),
                              ![c].pc = "fetch"]
    /\ UNCHANGED <<alertVars, writeupVars, now, resultCache, poolSize, parsing, nextId>>

\* a candidate fetch whose error is absorbed into an empty result
FetchFailAbsorbed(c) ==
    /\ calls[c].pc = "fetch"
    /\ calls' = [calls EXCEPT ![c].pc = "resolved", ![c].storageError = "storage error"]
    /\ UNCHANGED <<alertVars, writeupVars, now, resultCache, poolSize, parsing, nextId>>

\* the storage read of fetchAllActiveGrants fails: throw error
FetchFail(c) ==
    /\ calls[c].pc = "fetch"
    /\ calls' = [calls EXCEPT ![c].pc = "rejected", ![c].storageError = "storage error"]
    /\ UNCHANGED <<alertVars, writeupVars, now, resultCache, poolSize, parsing, nextId>>

\* the ids of the searches that have returned in the other callers
ReturnedIds(c) ==
    {calls[d].id : d \in {e \in Callers : e # c /\ calls[e].pc \in {"resolved", "rejected"}}}

\* the search that wrote the entry of the key, 0 when there is none
WriterOf(cache, key) == IF key \in DOMAIN cache THEN cache[key].writer ELSE 0

\* The candidate fetch returns.  No candidates: return [].  Otherwise
\* scoreGrantsSemantically runs to its first await: a cache hit returns the
\* cached scores, which searchGrants filters and maps; a miss dispatches
\* every batch.
FetchReturn(c) ==
    LET call == calls[c]
        grants == fetchAllActiveGrants(call.filters)
        seen == [call EXCEPT !.grants = grants, !.scoredAt = now,
                             !.priorIds = ReturnedIds(c),
                             !.entryWriter =
                                 WriterOf(resultCache, getCacheKey(call.query, Len(grants)))]
    IN  /\ call.pc = "fetch"
        /\ calls' = [calls EXCEPT ![c] =
              IF Len(grants) = 0
              THEN [call EXCEPT !.pc = "resolved", !.results = <<>>]
              ELSE IF CacheHit(resultCache, call.query, Len(grants), now)
              THEN LET cached == getCachedResults(resultCache, call.query, Len(grants))
                   IN  [seen EXCEPT !.pc = "resolved", !.cacheHit = TRUE,
                                    !.scores = cached,
                                    !.results = ShapeResults(cached, grants)]
              ELSE [seen EXCEPT !.pc = "scoring",
                                !.batches = DispatchBatches(grants, poolSize)]]
        /\ UNCHANGED <<alertVars, writeupVars, now, resultCache, poolSize, parsing, nextId>>

\* a scoring that aggregates, caches and returns as soon as one batch settles
ResolveBatchEarly(c, b, content, result, outcome) ==
    LET call == calls[c]
        batches == [call.batches EXCEPT ![b].status = "resolved",
                                        ![b].content = content,
                                        ![b].result = result,
                                        ![b].outcome = outcome,
                                        ![b].settledAs = Settled(call.batches) + 1]
        scores == Aggregate(BatchResults(batches), call.grants, call.userPrefs)
    IN  /\ calls' = [calls EXCEPT ![c] =
                        [call EXCEPT !.batches = batches, !.scores = scores,
                                     !.results = ShapeResults(scores, call.grants),
                                     !.cacheWrites = @ + 1, !.wroteAt = now,
                                     !.pc = "resolved"]]
        /\ resultCache' = cacheResults(resultCache, call.query, Len(call.grants),
                                       scores, now, call.id)

\* A batch resolves with result.  When it is the last one, Promise.all
\* resolves and scoreGrantsSemantically aggregates, caches and returns, and
\* searchGrants filters and maps the scores.
ResolveBatch(c, b, content, result, outcome) ==
    LET call == calls[c]
        batches == [call.batches EXCEPT ![b].status = "resolved",
                                        ![b].content = content,
                                        ![b].result = result,
                                        ![b].outcome = outcome,
                                        ![b].settledAs = Settled(call.batches) + 1]
        scores == Aggregate(BatchResults(batches), call.grants, call.userPrefs)
    IN  IF AllResolved(batches)
        THEN /\ calls' = [calls EXCEPT ![c] =
                            [call EXCEPT !.batches = batches, !.scores = scores,
                                         !.results = ShapeResults(scores, call.grants),
                                         !.cacheWrites = @ + 1, !.wroteAt = now,
                                         !.pc = "resolved"]]
             /\ resultCache' = cacheResults(resultCache, call.query, Len(call.grants),
                                            scores, now, call.id)
        ELSE /\ calls' = [calls EXCEPT ![c].batches = batches]
             /\ UNCHANGED resultCache

\* a retry whose answer is dropped: the retried call gets the default scores
ServiceAnswerRetryLost(c, b, content) ==
    /\ calls[c].pc = "scoring"
    /\ b \in 1..Len(calls[c].batches)
    /\ calls[c].batches[b].status = "calling"
    /\ ResolveBatch(c, b, content,
                    IF calls[c].batches[b].retryCount > 0
                    THEN NeutralScores(calls[c].batches[b].grants)
                    ELSE parseScoreResponse(content, calls[c].batches[b].grants),
                    "parsed")
    /\ UNCHANGED <<alertVars, writeupVars, now, poolSize, parsing, nextId>>

\* the service answers the call of batch b with content
ServiceAnswer(c, b, content) ==
    /\ calls[c].pc = "scoring"
    /\ b \in 1..Len(calls[c].batches)
    /\ calls[c].batches[b].status = "calling"
    /\ ResolveBatch(c, b, content,
                    parseScoreResponse(content, calls[c].batches[b].grants), "parsed")
    /\ UNCHANGED <<alertVars, writeupVars, now, poolSize, parsing, nextId>>

\* the call of batch b throws: sleep and retry on a rate limit while
\* retryCount < MAX_RETRIES, else the default scores
ServiceError(c, b, errorMessage) ==
    /\ calls[c].pc = "scoring"
    /\ b \in 1..Len(calls[c].batches)
    /\ calls[c].batches[b].status = "calling"
    /\ IF isRateLimit(errorMessage) /\ calls[c].batches[b].retryCount < MAX_RETRIES
       THEN /\ calls' = [calls EXCEPT ![c].batches[b].status = "sleeping",
                                      ![c].batches[b].delay =
                                          RetryDelay(calls[c].batches[b].retryCount)]
            /\ UNCHANGED resultCache
       ELSE ResolveBatch(c, b, NoContent, NeutralScores(calls[c].batches[b].grants),
                         "neutral")
    /\ UNCHANGED <<alertVars, writeupVars, now, poolSize, parsing, nextId>>

\* a retry that passes retryCount on as it is
RetryAfterSleepSameCount(c, b) ==
    /\ calls[c].pc = "scoring"
    /\ b \in 1..Len(calls[c].batches)
    /\ calls[c].batches[b].status = "sleeping"
    /\ calls' = [calls EXCEPT ![c].batches[b].status = "calling"]
    /\ UNCHANGED <<alertVars, writeupVars, now, resultCache, poolSize, parsing, nextId>>

\* sleep(delay) is over: scoreGrantBatch(..., retryCount + 1) calls the service
RetryAfterSleep(c, b) ==
    /\ calls[c].pc = "scoring"
    /\ b \in 1..Len(calls[c].batches)
    /\ calls[c].batches[b].status = "sleeping"
    /\ calls' = [calls EXCEPT ![c].batches[b].status = "calling",
                              ![c].batches[b].retryCount = @ + 1,
                              ![c].batches[b].calls = @ + 1]
    /\ UNCHANGED <<alertVars, writeupVars, now, resultCache, poolSize, parsing, nextId>>

\* the caller has taken the result (or the error) of its search
Return(c) ==
    /\ calls[c].pc \in {"resolved", "rejected"}
    /\ calls' = [calls EXCEPT ![c] = IdleCall]
    /\ UNCHANGED <<alertVars, writeupVars, now, resultCache, poolSize, parsing, nextId>>

\* clearCache
clearCache ==
    /\ resultCache # EmptyCache
    /\ resultCache' = EmptyCache
    /\ UNCHANGED <<alertVars, writeupVars, now, poolSize, parsing, calls, nextId>>

\* time passes
Tick ==
    /\ now < MaxTicks * ClockStep
    /\ now' = now + ClockStep
    /\ UNCHANGED <<alertVars, writeupVars, resultCache, poolSize, parsing, calls, nextId>>

\* parseGrantQuery is called with userQuery and awaits the completion
ParseStart(provider, userQuery) ==
    /\ parsing.pc = "idle"
    /\ parsing' = [IdleParse EXCEPT !.pc = "calling", !.provider = provider,
                                    !.userQuery = userQuery, !.attempts = 1]
    /\ UNCHANGED <<alertVars, writeupVars, now, resultCache, poolSize, calls, nextId>>

\* the completion settles and parseGrantQuery returns its criteria
ParseSettle(completion) ==
    /\ parsing.pc = "calling"
    /\ parsing' = [parsing EXCEPT !.pc = "returned", !.completion = completion,
                      !.result = parseGrantQuery(parsing.provider, parsing.userQuery,
                                                 completion)]
    /\ UNCHANGED <<alertVars, writeupVars, now, resultCache, poolSize, calls, nextId>>

\* the caller has taken the criteria
ParseDone ==
    /\ parsing.pc = "returned"
    /\ parsing' = IdleParse
    /\ UNCHANGED <<alertVars, writeupVars, now, resultCache, poolSize, calls, nextId>>

(***************************************************************************)
(* grantMatcher.ts: the listings that do not score (getRecommendedGrants,  *)
(* filterGrantsManually, getAllGrants).                                    *)
(***************************************************************************)
RECENT_LIMIT == 10
LISTING_SCORE == 50
MANUAL_DEFAULT_SCORE == 75

Reverse(s) == [i \in 1..Len(s) |-> s[Len(s) + 1 - i]]

\* .eq('is_active', true).order('created_at', {ascending: false}).limit(10);
\* the rows of GrantsTable are in the order of created_at
RecentActiveGrants ==
    LET rows == Reverse(SelectSeq(GrantsTable, LAMBDA g : g.is_active))
    IN  SubSeq(rows, 1, Min(Len(rows), RECENT_LIMIT))

\* getRecommendedGrants without preferences: every row with matchScore 50
\* (whyMatches and whyDoesNotMatch are not set)
RecentlyAdded(rows) ==
    [i \in 1..Len(rows) |->
        GrantWithScore(rows[i],
                       GrantScore(rows[i].id, LISTING_SCORE, <<"Recently added grant">>,
                                  Undefined, Undefined))]

RECURSIVE Join(_)
\* userPrefs.issueAreas.join(' ')
Join(parts) ==
    IF parts = <<>> THEN <<>>
    ELSE IF Len(parts) = 1 THEN parts[1]
    ELSE parts[1] \o <<" ">> \o Join(Tail(parts))

GeneralGrants == <<"g", "e", "n", "e", "r", "a", "l", " ", "g", "r", "a", "n", "t", "s">>

\* queryParts.join(' ') || 'general grants', over the stored issue areas
\* (the preferences of the model hold nothing else)
SyntheticQuery(userPrefs) ==
    IF Len(userPrefs.issueAreas) # 0 /\ Join(userPrefs.issueAreas) # <<>>
    THEN Join(userPrefs.issueAreas)
    ELSE GeneralGrants

\* the predicate that filterGrantsManually builds from its filters
ManualPredicate(g, f) ==
    /\ g.is_active
    /\ TruthyStr(f.issueArea) => ilike(g.issue_area, f.issueArea)
    /\ TruthyStr(f.scope) => ilike(g.scope, f.scope)
    /\ f.fundingMin > 0 => gte(g.funding_max, f.fundingMin)
    /\ f.fundingMax < FUNDING_MAX_OPEN => lte(g.funding_min, f.fundingMax)
    /\ \/ gte(g.application_due_date, Today)
       \/ g.application_due_date = NullNum

\* Math.round((matchCount / totalFilters) * 100)
RoundPercent(matchCount, totalFilters) ==
    (200 * matchCount + totalFilters) \div (2 * totalFilters)

\* the score and the reasons that filterGrantsManually gives a row
ManualScore(g, f) ==
    LET funding == f.fundingMin > 0 \/ f.fundingMax < FUNDING_MAX_OPEN
        area == /\ TruthyStr(f.issueArea)
                /\ g.issue_area # NullStr
                /\ includes(toLowerCase(g.issue_area), toLowerCase(f.issueArea))
        scope == /\ TruthyStr(f.scope)
                 /\ g.scope # NullStr
                 /\ includes(toLowerCase(g.scope), toLowerCase(f.scope))
        totalFilters == (IF TruthyStr(f.issueArea) THEN 1 ELSE 0)
                        + (IF TruthyStr(f.scope) THEN 1 ELSE 0)
                        + (IF funding THEN 1 ELSE 0)
        matchCount == (IF area THEN 1 ELSE 0) + (IF scope THEN 1 ELSE 0)
                      + (IF funding THEN 1 ELSE 0)
        reasons == (IF area THEN <<"Matches focus">> ELSE <<>>)
                   \o (IF scope THEN <<"scope">> ELSE <<>>)
                   \o (IF funding THEN <<"Within funding range">> ELSE <<>>)
        score == IF totalFilters > 0 THEN RoundPercent(matchCount, totalFilters)
                 ELSE MANUAL_DEFAULT_SCORE
    IN  GrantScore(g.id, Max(LISTING_SCORE, score),
                   IF Len(reasons) > 0 THEN reasons ELSE <<"Matches your filters">>,
                   IF Len(reasons) > 0 THEN reasons
                   ELSE <<"Matches your selected filters">>,
                   IF score < 100 THEN <<"Some filter criteria may not be fully met">>
                   ELSE <<>>)

\* the rows that filterGrantsManually returns when its read succeeds
ManualRows(f) ==
    LET rows == OrderByDue(SelectSeq(GrantsTable, LAMBDA g : ManualPredicate(g, f)))
    IN  [i \in 1..Len(rows) |-> GrantWithScore(rows[i], ManualScore(rows[i], f))]

\* the rows that getAllGrants returns when its read succeeds
AllRows ==
    LET rows == OrderByDue(SelectSeq(GrantsTable, LAMBDA g :
                    /\ g.is_active
                    /\ \/ gte(g.application_due_date, Today)
                       \/ g.application_due_date = NullNum))
    IN  [i \in 1..Len(rows) |->
            GrantWithScore(rows[i],
                GrantScore(rows[i].id, LISTING_SCORE,
                    <<"Active grant - use NLP search for detailed matching">>,
                    <<"Grant is currently active and accepting applications">>,
                    <<"No specific search criteria applied yet">>))]

\* filterGrantsManually(filters): one read of the table; throw error when
\* it fails
filterGrantsManually(c, filters, ok) ==
    /\ calls[c].pc = "idle"
    /\ nextId <= MaxSearches
    /\ calls' = [calls EXCEPT ![c] =
                    [IdleCall EXCEPT !.op = "filterGrantsManually", !.id = nextId,
                                     !.filters = filters,
                                     !.pc = IF ok THEN "resolved" ELSE "rejected",
                                     !.storageError = IF ok THEN "" ELSE "storage error",
                                     !.results = IF ok THEN ManualRows(filters) ELSE <<>>]]
    /\ nextId' = nextId + 1
    /\ UNCHANGED <<alertVars, writeupVars, now, resultCache, poolSize, parsing>>

\* getAllGrants(): one read of the table; throw error when it fails
getAllGrants(c, ok) ==
    /\ calls[c].pc = "idle"
    /\ nextId <= MaxSearches
    /\ calls' = [calls EXCEPT ![c] =
                    [IdleCall EXCEPT !.op = "getAllGrants", !.id = nextId,
                                     !.pc = IF ok THEN "resolved" ELSE "rejected",
                                     !.storageError = IF ok THEN "" ELSE "storage error",
                                     !.results = IF ok THEN AllRows ELSE <<>>]]
    /\ nextId' = nextId + 1
    /\ UNCHANGED <<alertVars, writeupVars, now, resultCache, poolSize, parsing>>

\* getRecommendedGrants(userId) up to its first await, the preferences read
RecommendStart(c) ==
    /\ calls[c].pc = "idle"
    /\ nextId <= MaxSearches
    /\ calls' = [calls EXCEPT ![c] =
                    [IdleCall EXCEPT !.op = "getRecommendedGrants", !.id = nextId,
                                     !.hasUser = TRUE, !.pc = "recommend"]]
    /\ nextId' = nextId + 1
    /\ UNCHANGED <<alertVars, writeupVars, now, resultCache, poolSize, parsing>>

\* fetchUserPreferences returns to getRecommendedGrants.  No preferences:
\* the read of the recent active grants, whose error is not looked at.
\* Otherwise searchGrants(syntheticQuery, userId), which reads the
\* preferences itself.
RecommendPrefsReturn(c, read, ok) ==
    /\ calls[c].pc = "recommend"
    /\ calls' = [calls EXCEPT ![c] =
          IF ~fetchUserPreferences(read).defined
          THEN [calls[c] EXCEPT !.pc = "resolved",
                                !.results = IF ok THEN RecentlyAdded(RecentActiveGrants)
                                            ELSE <<>>]
          ELSE [calls[c] EXCEPT !.pc = "prefs", !.useProfile = TRUE,
                                !.query = SyntheticQuery(fetchUserPreferences(read))]]
    /\ UNCHANGED <<alertVars, writeupVars, now, resultCache, poolSize, parsing, nextId>>

(***************************************************************************)
(* The interpreter-based search (the searchGrants that calls               *)
(* parseGrantQuery and scores with calculateMatchScore).                   *)
(***************************************************************************)
ISSUE_AREA_WEIGHT == 35
FUNDING_WEIGHT == 25
SCOPE_WEIGHT == 15
DEADLINE_WEIGHT == 10
KEYWORD_WEIGHT == 10
PREFERENCE_WEIGHT == 5
DEADLINE_WINDOW == 90
DEADLINE_SOON == 30
GOOD_MATCH == 50
LOW_MATCH == 20

\* Scores are sums of fractions of the weights; the model counts them in
\* units of 1/180 of a percent, in which every term is a whole number.
ScoreUnit == 2 * DEADLINE_WINDOW

\* the value of a decimal digit
DigitValue(c) ==
    CASE c = "0" -> 0 [] c = "1" -> 1 [] c = "2" -> 2 [] c = "3" -> 3 [] c = "4" -> 4
      [] c = "5" -> 5 [] c = "6" -> 6 [] c = "7" -> 7 [] c = "8" -> 8 [] c = "9" -> 9
      [] OTHER -> 0

RECURSIVE DayOf(_)
\* the day a date text stands for (dates are day numbers written in digits)
DayOf(text) ==
    IF text = <<>> THEN 0
    ELSE 10 * DayOf(SubSeq(text, 1, Len(text) - 1)) + DigitValue(text[Len(text)])

\* title, description and eligibility criteria of the rows, as one text
GrantText(id) ==
    CASE id = "g1" -> <<"S", "o", "l", "a", "r", " ", "r", "o", "o", "f", "s">>
      [] id = "g3" -> <<"g", "r", "e", "e", "n", " ", "s", "o", "l", "a", "r">>
      [] OTHER -> <<"a", "r", "t", "s">>

\* the grants table with one more row: g6 has no funding bounds and a
\* deadline beyond DEADLINE_WINDOW days
InterpretedTable ==
    GrantsTable \o <<Grant("g6", AreaArt, ScopeLoc, NullNum, NullNum, Today + 200, TRUE)>>

\* the predicate that fetchGrants builds from the criteria
FetchGrantsPredicate(g, criteria) ==
    /\ g.is_active
    /\ criteria.fundingMin # NullNum => gte(g.funding_max, criteria.fundingMin)
    /\ criteria.fundingMax # NullNum => lte(g.funding_min, criteria.fundingMax)
    /\ TruthyStr(criteria.scope) => ilike(g.scope, criteria.scope)
    /\ TruthyStr(criteria.deadlineBefore)
          => lte(g.application_due_date, DayOf(criteria.deadlineBefore))
    /\ \/ gte(g.application_due_date, Today)
       \/ g.application_due_date = NullNum

\* fetchGrants, when the storage read succeeds
fetchGrants(criteria) ==
    OrderByDue(SelectSeq(InterpretedTable, LAMBDA g : FetchGrantsPredicate(g, criteria)))

\* Issue area matching (35%)
IssueAreaScore(grant, criteria) ==
    IF Len(criteria.issueAreas) > 0 /\ TruthyStr(grant.issue_area)
    THEN IF \E k \in 1..Len(criteria.issueAreas) :
               \/ includes(toLowerCase(grant.issue_area), toLowerCase(criteria.issueAreas[k]))
               \/ includes(toLowerCase(criteria.issueAreas[k]), toLowerCase(grant.issue_area))
         THEN ISSUE_AREA_WEIGHT * ScoreUnit ELSE 0
    ELSE IF Len(criteria.issueAreas) = 0 THEN (ISSUE_AREA_WEIGHT * ScoreUnit) \div 2
    ELSE 0

\* x || 0 and x || Infinity: null and 0 are falsy
Falsy(v) == v = NullNum \/ v = 0

\* Funding range matching (25%)
FundingScore(grant, criteria) ==
    IF grant.funding_min # NullNum \/ grant.funding_max # NullNum
    THEN LET grantMin == IF Falsy(grant.funding_min) THEN 0 ELSE grant.funding_min
             queryMin == IF Falsy(criteria.fundingMin) THEN 0 ELSE criteria.fundingMin
             overlap == /\ Falsy(criteria.fundingMax) \/ grantMin <= criteria.fundingMax
                        /\ Falsy(grant.funding_max) \/ grant.funding_max >= queryMin
         IN  IF overlap THEN FUNDING_WEIGHT * ScoreUnit
             ELSE IF queryMin = 0 /\ Falsy(criteria.fundingMax)
                  THEN (FUNDING_WEIGHT * ScoreUnit) \div 2
                  ELSE 0
    ELSE 0

\* Scope matching (15%)
ScopeScore(grant, criteria) ==
    IF TruthyStr(criteria.scope) /\ TruthyStr(grant.scope)
    THEN IF toLowerCase(grant.scope) = toLowerCase(criteria.scope)
         THEN SCOPE_WEIGHT * ScoreUnit ELSE 0
    ELSE IF ~TruthyStr(criteria.scope) THEN (SCOPE_WEIGHT * ScoreUnit) \div 2
    ELSE 0

\* Math.floor((dueDate - today) / day): the due date is a midnight, today is
\* the moment of the call
DaysUntilDue(grant, atMidnight) ==
    grant.application_due_date - Today - (IF atMidnight THEN 0 ELSE 1)

\* Deadline proximity (10%)
DeadlineScore(grant, atMidnight) ==
    IF grant.application_due_date = NullNum THEN 0
    ELSE LET days == DaysUntilDue(grant, atMidnight)
         IN  IF days > 0 /\ days <= DEADLINE_WINDOW
             THEN (DEADLINE_WEIGHT * ScoreUnit * (DEADLINE_WINDOW - days)) \div DEADLINE_WINDOW
             ELSE IF days > DEADLINE_WINDOW THEN (DEADLINE_WEIGHT * ScoreUnit * 3) \div 10
             ELSE 0

\* criteria.keywords.filter(kw => grantText.includes(kw.toLowerCase()))
MatchedKeywords(grant, criteria) ==
    SelectSeq(criteria.keywords,
              LAMBDA kw : includes(toLowerCase(GrantText(grant.id)), toLowerCase(kw)))

\* Keyword matching (10%)
KeywordScore(grant, criteria) ==
    IF Len(criteria.keywords) > 0 /\ Len(MatchedKeywords(grant, criteria)) > 0
    THEN (KEYWORD_WEIGHT * ScoreUnit * Len(MatchedKeywords(grant, criteria)))
             \div Len(criteria.keywords)
    ELSE 0

\* User preference bonus (5%): half for a preferred issue area (the
\* preferences of the model hold no preferred scope)
PreferenceScore(grant, userPrefs) ==
    IF userPrefs.defined /\ MatchesPreference(grant, userPrefs)
    THEN (PREFERENCE_WEIGHT * ScoreUnit) \div 2
    ELSE 0

\* Math.round(Math.min(100, score * 100))
NormalizedScore(units) == (Min(100 * ScoreUnit, units) + ScoreUnit \div 2) \div ScoreUnit

calculateMatchScore(grant, criteria, userPrefs, atMidnight) ==
    LET units == IssueAreaScore(grant, criteria) + FundingScore(grant, criteria)
                 + ScopeScore(grant, criteria) + DeadlineScore(grant, atMidnight)
                 + KeywordScore(grant, criteria) + PreferenceScore(grant, userPrefs)
        days == DaysUntilDue(grant, atMidnight)
        reasons ==
            (IF IssueAreaScore(grant, criteria) = ISSUE_AREA_WEIGHT * ScoreUnit
             THEN <<"Matches focus area">> ELSE <<>>)
            \o (IF FundingScore(grant, criteria) = FUNDING_WEIGHT * ScoreUnit
                THEN <<"Funding range fits your budget">> ELSE <<>>)
            \o (IF ScopeScore(grant, criteria) = SCOPE_WEIGHT * ScoreUnit
                THEN <<"scope matches preference">> ELSE <<>>)
            \o (IF grant.application_due_date # NullNum /\ days > 0 /\ days <= DEADLINE_SOON
                THEN <<"Deadline in days">> ELSE <<>>)
            \o (IF Len(MatchedKeywords(grant, criteria)) >= 2
                THEN <<"Matches keywords">> ELSE <<>>)
            \o (IF PreferenceScore(grant, userPrefs) > 0
                THEN <<"Matches your saved preferences">> ELSE <<>>)
    IN  GrantScore(grant.id, NormalizedScore(units), reasons, Undefined, Undefined)

RECURSIVE InsertByMatch(_, _)
\* the place of r in a list sorted by matchScore, highest first, after the
\* entries of the same score
InsertByMatch(r, sorted) ==
    IF sorted = <<>> THEN <<r>>
    ELSE IF r.matchScore > Head(sorted).matchScore THEN <<r>> \o sorted
    ELSE <<Head(sorted)>> \o InsertByMatch(r, Tail(sorted))

RECURSIVE SortByMatch(_)
\* scoredGrants.sort((a, b) => b.matchScore - a.matchScore), a stable sort
SortByMatch(rows) ==
    IF rows = <<>> THEN <<>>
    ELSE InsertByMatch(rows[Len(rows)], SortByMatch(SubSeq(rows, 1, Len(rows) - 1)))

\* the entries below LOW_MATCH are kept
DualThresholdKeepAll(scoredGrants) == scoredGrants

\* hasGoodMatches ? scoredGrants.filter(g => g.matchScore >= 20) : scoredGrants
DualThreshold(scoredGrants) ==
    IF \E i \in 1..Len(scoredGrants) : scoredGrants[i].matchScore >= GOOD_MATCH
    THEN SelectSeq(scoredGrants, LAMBDA g : g.matchScore >= LOW_MATCH)
    ELSE scoredGrants

\* searchGrants after its awaits: score, sort, filter
ScoredGrants(grants, criteria, userPrefs, atMidnight) ==
    SortByMatch([i \in 1..Len(grants) |->
        GrantWithScore(grants[i],
                       calculateMatchScore(grants[i], criteria, userPrefs, atMidnight))])

\* searchGrants(query, userId) up to its first await, parseGrantQuery
InterpretedSearchStart(c, query, hasUser) ==
    /\ calls[c].pc = "idle"
    /\ parsing.pc = "idle"
    /\ nextId <= MaxSearches
    /\ calls' = [calls EXCEPT ![c] =
                    [IdleCall EXCEPT !.op = "interpreted searchGrants", !.id = nextId,
                                     !.query = query, !.hasUser = hasUser,
                                     !.pc = "interpret"]]
    /\ parsing' = [IdleParse EXCEPT !.pc = "calling", !.provider = "gemini",
                                    !.userQuery = query, !.attempts = 1]
    /\ nextId' = nextId + 1
    /\ UNCHANGED <<alertVars, writeupVars, now, resultCache, poolSize>>

\* parseGrantQuery has returned the criteria; fetchGrants(criteria) returns
\* the rows or throws
InterpretedFetch(c, ok) ==
    /\ calls[c].pc = "interpret"
    /\ parsing.pc = "returned"
    /\ calls' = [calls EXCEPT ![c] =
          IF ok
          THEN [calls[c] EXCEPT !.criteria = parsing.result,
                                !.grants = fetchGrants(parsing.result),
                                !.pc = "interpreted"]
          ELSE [calls[c] EXCEPT !.criteria = parsing.result,
                                !.pc = "rejected", !.storageError = "storage error"]]
    /\ parsing' = IdleParse
    /\ UNCHANGED <<alertVars, writeupVars, now, resultCache, poolSize, nextId>>

\* the preferences are read when there is a user; the rows are scored,
\* sorted and filtered
InterpretedScore(c, read, atMidnight) ==
    /\ calls[c].pc = "interpreted"
    /\ LET userPrefs == IF calls[c].hasUser THEN fetchUserPreferences(read) ELSE NoPrefs
           scoredGrants == ScoredGrants(calls[c].grants, calls[c].criteria, userPrefs,
                                        atMidnight)
       IN  calls' = [calls EXCEPT ![c].userPrefs = userPrefs,
                                  ![c].ranked = scoredGrants,
                                  ![c].results = DualThreshold(scoredGrants),
                                  ![c].pc = "resolved"]
    /\ UNCHANGED <<alertVars, writeupVars, now, resultCache, poolSize, parsing, nextId>>

(***************************************************************************)
(* send-grant-alerts (Deno.serve), one action per step between two awaits. *)
(***************************************************************************)
\* the rows that findMatchingGrantsWithAI reads: active, due today or later
AlertCandidates ==
    SelectSeq(GrantsTable, LAMBDA g : g.is_active /\ gte(g.application_due_date, Today))

\* findMatchingGrantsWithAI: the candidates whose score reaches
\* pref.match_threshold (passing: the ids that the scoring lets pass)
findMatchingGrantsWithAI(passing) ==
    [i \in 1..Len(SelectSeq(AlertCandidates, LAMBDA g : g.id \in passing)) |->
        SelectSeq(AlertCandidates, LAMBDA g : g.id \in passing)[i].id]

\* results.push(...) and the next turn of the loop over the preferences
FinishUser(run, status, grantsFound) ==
    [run EXCEPT !.queue = Tail(@), !.matchingGrants = <<>>, !.newGrants = <<>>,
                !.toLog = <<>>,
                !.results = Append(@, [userId |-> Head(run.queue), status |-> status,
                                       grantsFound |-> grantsFound]),
                !.pc = IF Len(run.queue) > 1 THEN "match" ELSE "done"]

\* a request arrives; the enabled preferences are read
AlertStart(r, preferences, resendApiKey) ==
    /\ runs[r].pc = "idle"
    /\ runs[r].starts < MaxAlertStarts
    /\ runs' = [runs EXCEPT ![r] =
                   [IdleRun EXCEPT !.starts = runs[r].starts + 1,
                                   !.resendApiKey = resendApiKey,
                                   !.queue = preferences,
                                   !.pc = IF preferences = <<>> THEN "done" ELSE "match"]]
    /\ UNCHANGED <<now, resultCache, poolSize, calls, nextId, parsing,
                   email_notification_log, sentEmails, writeupVars>>

\* the read of the preferences fails: the request ends with status 500
AlertStartFail(r) ==
    /\ runs[r].pc = "idle"
    /\ runs[r].starts < MaxAlertStarts
    /\ runs' = [runs EXCEPT ![r] =
                   [IdleRun EXCEPT !.starts = runs[r].starts + 1, !.pc = "failed"]]
    /\ UNCHANGED <<now, resultCache, poolSize, calls, nextId, parsing,
                   email_notification_log, sentEmails, writeupVars>>

\* the profile is read and findMatchingGrantsWithAI returns
AlertMatch(r, passing) ==
    /\ runs[r].pc = "match"
    /\ runs' = [runs EXCEPT ![r].matchingGrants = findMatchingGrantsWithAI(passing),
                            ![r].pc = "readLog"]
    /\ UNCHANGED <<now, resultCache, poolSize, calls, nextId, parsing,
                   email_notification_log, sentEmails, writeupVars>>

\* the log of the user is read (sentGrants is null when the read fails);
\* newGrants are the matching grants that are not in it
AlertReadLog(r, ok) ==
    LET run == runs[r]
        user == Head(run.queue)
        sentIds == IF ok THEN {p[2] : p \in {q \in email_notification_log : q[1] = user}}
                   ELSE {}
        newGrants == SelectSeq(run.matchingGrants, LAMBDA id : id \notin sentIds)
    IN  /\ run.pc = "readLog"
        /\ runs' = [runs EXCEPT ![r] =
              IF newGrants = <<>> THEN FinishUser(run, "no_new_grants", 0)
              ELSE IF ~run.resendApiKey THEN FinishUser(run, "no_resend_key", Len(newGrants))
              ELSE [run EXCEPT !.newGrants = newGrants, !.pc = "send"]]
        /\ UNCHANGED <<now, resultCache, poolSize, calls, nextId, parsing,
                       email_notification_log, sentEmails, writeupVars>>

\* sendEmail returns: true when Resend accepted the email
AlertSendEmail(r, emailSent) ==
    LET run == runs[r]
    IN  /\ run.pc = "send"
        /\ IF emailSent
           THEN /\ sentEmails' = Append(sentEmails, [to |-> Head(run.queue),
                                                     grants |-> run.newGrants])
                /\ runs' = [runs EXCEPT ![r].toLog = run.newGrants, ![r].pc = "log"]
           ELSE /\ sentEmails' = sentEmails
                /\ runs' = [runs EXCEPT ![r] =
                               FinishUser(run, "email_failed", Len(run.newGrants))]
        /\ UNCHANGED <<now, resultCache, poolSize, calls, nextId, parsing,
                       email_notification_log, writeupVars>>

\* one upsert of the loop over newGrants; its error is not looked at
AlertLogGrant(r, ok) ==
    LET run == runs[r]
    IN  /\ run.pc = "log"
        /\ email_notification_log' =
              IF ok THEN email_notification_log \cup {<<Head(run.queue), Head(run.toLog)>>}
              ELSE email_notification_log
        /\ runs' = [runs EXCEPT ![r].toLog = Tail(@),
                                ![r].pc = IF Len(run.toLog) > 1 THEN "log" ELSE "stamp"]
        /\ UNCHANGED <<now, resultCache, poolSize, calls, nextId, parsing,
                       sentEmails, writeupVars>>

\* last_sent_at is updated, emailsSent++
AlertStamp(r) ==
    /\ runs[r].pc = "stamp"
    /\ runs' = [runs EXCEPT ![r] =
                   [FinishUser(runs[r], "sent", Len(runs[r].newGrants))
                       EXCEPT !.emailsSent = @ + 1]]
    /\ UNCHANGED <<now, resultCache, poolSize, calls, nextId, parsing,
                   email_notification_log, sentEmails, writeupVars>>

\* an await of the turn throws: catch (userError), the next user
AlertUserError(r) ==
    /\ runs[r].pc \in {"match", "readLog", "send", "log", "stamp"}
    /\ runs' = [runs EXCEPT ![r] = FinishUser(runs[r], "error", 0)]
    /\ UNCHANGED <<now, resultCache, poolSize, calls, nextId, parsing,
                   email_notification_log, sentEmails, writeupVars>>

\* the response is returned
AlertReturn(r) ==
    /\ runs[r].pc \in {"done", "failed"}
    /\ runs' = [runs EXCEPT ![r] = [IdleRun EXCEPT !.starts = runs[r].starts]]
    /\ UNCHANGED <<now, resultCache, poolSize, calls, nextId, parsing,
                   email_notification_log, sentEmails, writeupVars>>

(***************************************************************************)
(* grantWriteupService.ts: generateGrantWriteup and the key rotation.      *)
(* API_KEYS is built from the same variables as the scoring pool, so       *)
(* API_KEYS.length is poolSize.                                            *)
(***************************************************************************)
WriteupFailure == "Failed to generate writeup. Please try again."

\* rotateApiKey
rotateApiKey(index, keys) == (index + 1) % keys

\* generateGrantWriteup(context) up to its await: the completion is
\* requested with the key at currentKeyIndex
WriteupStart ==
    /\ writeup.pc = "idle"
    /\ writeup' = [IdleWriteup EXCEPT !.pc = "calling", !.serviceCalls = 1]
    /\ UNCHANGED <<now, resultCache, poolSize, calls, nextId, parsing, alertVars,
                   currentKeyIndex>>

\* the completion arrives: return message.content || ''
WriteupAnswer(content) ==
    /\ writeup.pc = "calling"
    /\ writeup' = [writeup EXCEPT !.pc = "returned",
                                  !.result = IF TruthyStr(content) THEN content ELSE <<>>]
    /\ UNCHANGED <<now, resultCache, poolSize, calls, nextId, parsing, alertVars,
                   currentKeyIndex>>

\* the completion call throws: on a rate limit with more than one key,
\* rotate and call generateGrantWriteup again; else throw the failure
WriteupError(errorMessage) ==
    /\ writeup.pc = "calling"
    /\ IF isRateLimit(errorMessage) /\ poolSize > 1
       THEN /\ currentKeyIndex' = rotateApiKey(currentKeyIndex, poolSize)
            /\ writeup' = [writeup EXCEPT
                              !.serviceCalls = Min(MaxWriteupCalls, @ + 1)]
       ELSE /\ currentKeyIndex' = currentKeyIndex
            /\ writeup' = [writeup EXCEPT !.pc = "thrown", !.error = WriteupFailure]
    /\ UNCHANGED <<now, resultCache, poolSize, calls, nextId, parsing, alertVars>>

\* the caller has taken the writeup or the error
WriteupDone ==
    /\ writeup.pc \in {"returned", "thrown"}
    /\ writeup' = IdleWriteup
    /\ UNCHANGED <<now, resultCache, poolSize, calls, nextId, parsing, alertVars,
                   currentKeyIndex>>

(***************************************************************************)
(* Dashboard: the filter over the grants on display.                       *)
(***************************************************************************)
\* grant.funding_max || 0
OrZero(v) == IF v = NullNum THEN 0 ELSE v

\* the callback of baseGrants.filter: false when a filter is set and the
\* grant does not pass it
DisplayPredicate(g, f) ==
    /\ ~(/\ TruthyStr(f.issueArea)
          /\ ~(/\ g.issue_area # NullStr
                /\ includes(toLowerCase(g.issue_area), toLowerCase(f.issueArea))))
    /\ ~(/\ TruthyStr(f.scope)
          /\ ~(/\ g.scope # NullStr
                /\ includes(toLowerCase(g.scope), toLowerCase(f.scope))))
    /\ ~(f.fundingMin > 0 /\ OrZero(g.funding_max) < f.fundingMin)
    /\ ~(f.fundingMax < FUNDING_MAX_OPEN /\ OrZero(g.funding_min) > f.fundingMax)

grantsToShow(baseGrants, f) ==
    SelectSeq(baseGrants, LAMBDA r : DisplayPredicate(r.grant, f))

\* the Dashboard renders the list that the operation returned, under the
\* filters of the moment
Show(c, f) ==
    /\ calls[c].pc = "resolved"
    /\ ~calls[c].displayed
    /\ calls' = [calls EXCEPT ![c].displayed = TRUE, ![c].displayFilters = f,
                              ![c].shown = grantsToShow(calls[c].results, f)]
    /\ UNCHANGED <<alertVars, writeupVars, now, resultCache, poolSize, parsing, nextId>>

(***************************************************************************)
(* The inputs.                                                             *)
(***************************************************************************)
\* two texts of one query: they differ in case and in surrounding blanks
Queries == {<<"Q", "a">>, <<" ", "q", "a", " ">>}

\* (userId given, useProfilePreferences)
UserChoices == {<<TRUE, TRUE>>, <<TRUE, FALSE>>, <<FALSE, TRUE>>}

\* all three open grants; g3 and g1; g3 and g2; g2; no grant
FilterAll == NoFilters
FilterEnv == Filters(<<"e", "n", "v">>, NullStr, 0, FUNDING_MAX_OPEN)
FilterLoc == Filters(NullStr, <<"L", "O", "C">>, 0, FUNDING_MAX_OPEN)
FilterArt == Filters(AreaArt, NullStr, 0, FUNDING_MAX_OPEN)
FilterNone == Filters(AreaArt, ScopeNat, 0, FUNDING_MAX_OPEN)

\* the reads of user_preferences: an error, no row, a row without issue
\* areas, rows with one issue area
PrefsReads ==
    {PrefsRead(TRUE, FALSE, Undefined),
     PrefsRead(FALSE, FALSE, Undefined),
     PrefsRead(FALSE, TRUE, Undefined),
     PrefsRead(FALSE, TRUE, <<<<"E", "N", "V">>>>),
     PrefsRead(FALSE, TRUE, <<<<"a", "r">>>>)}

ErrorMessages == {ErrTooManyRequests, ErrRateLimit, ErrConnection}

\* an entry with an id, a score and both reason lists
ScoredItem(id, score) ==
    Item(<<id>>, <<>>, <<score>>, <<>>, Undefined, <<ReasonFit>>, <<ReasonNot>>)

\* an entry with nothing but a position
BareItem(index) == Item(<<>>, <<index>>, <<>>, <<>>, Undefined, Undefined, Undefined)

\* an entry in the legacy format: a score below 0 and a list of reasons
LegacyItem(id) ==
    Item(<<id>>, <<>>, <<0 - 5>>, <<>>, <<ReasonFit, ReasonLimit>>, Undefined, Undefined)

\* an answer that scores every grant of the batch with score, wrapped in an object
CompleteAnswer(batch, score) ==
    ObjectContent(<<[i \in 1..Len(batch) |-> ScoredItem(batch[i].id, score)]>>)

\* an answer that scores every grant of the batch with 70, the grants in
\* the reverse of their order in the batch
ReversedAnswer(batch) ==
    ArrayContent([i \in 1..Len(batch) |-> ScoredItem(batch[Len(batch) + 1 - i].id, 70)])

\* an answer with the first grant by position and without a score, an
\* entry for an id that is no grant, with a score above 100, and a legacy
\* entry for the last grant
DirtyAnswer(batch) ==
    ArrayContent(<<BareItem(1), ScoredItem("ghost", 120), LegacyItem(batch[Len(batch)].id)>>)

\* the answers of the service to a batch of a search over grants:
\* complete answers, answers that are not a list of entries, answers with
\* two entries for the first grant of the batch, answers with one entry for
\* the first grant of the search, a legacy entry
Contents(grants, batch) ==
    {CompleteAnswer(batch, 98), CompleteAnswer(batch, 20), DirtyAnswer(batch),
     InvalidContent, ScalarContent, ObjectContent(<<>>), ArrayContent(<<NullItem>>),
     ArrayContent(<<ScoredItem(batch[1].id, 40), ScoredItem(batch[1].id, 70)>>),
     ArrayContent(<<ScoredItem(batch[1].id, 70), ScoredItem(batch[1].id, 40)>>),
     ArrayContent(<<ScoredItem(grants[1].id, 40)>>),
     ArrayContent(<<ScoredItem(grants[1].id, 70)>>),
     ArrayContent(<<LegacyItem(batch[1].id)>>), ReversedAnswer(batch)}

(***************************************************************************)
(* Spec: one search, every answer and every error of the scoring service,  *)
(* every number of API keys.                                               *)
(***************************************************************************)
Next ==
    \/ \E u \in UserChoices, f \in {FilterAll, FilterEnv, FilterArt, FilterNone} :
          SearchStart(1, <<"Q", "a">>, u[1], f, u[2])
    \/ \E r \in PrefsReads : PrefsReturn(1, r)
    \/ FetchFail(1)
    \/ FetchReturn(1)
    \/ \E b \in 1..Len(calls[1].batches) :
          \E content \in Contents(calls[1].grants, calls[1].batches[b].grants) :
             ServiceAnswer(1, b, content)
    \/ \E b \in 1..Len(calls[1].batches), m \in ErrorMessages : ServiceError(1, b, m)
    \/ \E b \in 1..Len(calls[1].batches) : RetryAfterSleep(1, b)

Spec == Init /\ [][Next]_vars

InFlight(b) ==
    /\ calls[1].pc = "scoring"
    /\ b \in 1..Len(calls[1].batches)
    /\ calls[1].batches[b].status = "calling"

\* Every read of the storage returns, every service call returns or fails
\* (no batch stays in flight for ever), every sleep ends.
Fairness ==
    /\ WF_vars(\E r \in PrefsReads : PrefsReturn(1, r))
    /\ WF_vars(FetchReturn(1) \/ FetchFail(1))
    /\ \A b \in 1..Len(GrantsTable) : []<>(~InFlight(b))
    /\ \A b \in 1..Len(GrantsTable) : WF_vars(RetryAfterSleep(1, b))

SpecLive == Init /\ [][Next]_vars /\ Fairness

(***************************************************************************)
(* SpecCache: searches of two callers that may overlap, the clock and      *)
(* clearCache; the service answers every call, or fails it for good.       *)
(***************************************************************************)
CacheContents(batch) == {CompleteAnswer(batch, 98), DirtyAnswer(batch)}

InitCache ==
    /\ now = 0
    /\ resultCache = EmptyCache
    /\ poolSize = MaxKeys
    /\ calls = [c \in Callers |-> IdleCall]
    /\ nextId = 1
    /\ parsing = IdleParse
    /\ email_notification_log = {}
    /\ sentEmails = <<>>
    /\ runs = [r \in AlertRuns |-> IdleRun]
    /\ currentKeyIndex = 0
    /\ writeup = IdleWriteup

NextCache ==
    \/ \E c \in Callers, q \in Queries, f \in {FilterEnv, FilterLoc} :
          SearchStart(c, q, TRUE, f, TRUE)
    \/ \E c \in Callers :
          \E r \in {PrefsRead(FALSE, FALSE, Undefined),
                    PrefsRead(FALSE, TRUE, <<<<"E", "N", "V">>>>)} : PrefsReturn(c, r)
    \/ \E c \in Callers : FetchFail(c)
    \/ \E c \in Callers : FetchReturn(c)
    \/ \E c \in Callers : \E b \in 1..Len(calls[c].batches) :
          \E content \in CacheContents(calls[c].batches[b].grants) :
             ServiceAnswer(c, b, content)
    \/ \E c \in Callers : \E b \in 1..Len(calls[c].batches) :
          ServiceError(c, b, ErrConnection)
    \/ \E c \in Callers : Return(c)
    \/ clearCache
    \/ Tick

SpecCache == InitCache /\ [][NextCache]_vars

(***************************************************************************)
(* SpecParse: parseGrantQuery calls, of both providers, with every kind of *)
(* completion.                                                             *)
(***************************************************************************)
\* user queries: words of several lengths, blanks in front, behind and in
\* runs, capitals, the empty query
ParseQueries ==
    { <<"S", "o", "l", "a", "r", " ", "a", "i", "d">>,
      <<" ", "Y", "O", "U", "T", "H", " ", " ", "a", "r", "t", "s", " ">>,
      <<>>,
      <<" ">>,
      <<"a", "i", "d">>,
      <<"Q", "a">>,
      <<"f", "u", "n", "d", " ", "A", "R", "T", "S">>,
      <<"g", "r", "e", "e", "n">> }

Providers == {"groq", "gemini"}

\* the completions: errors, texts that are no object, objects with every
\* property, with falsy properties and with none
Completions ==
    { CompletionError, CompletionTimeout,
      CompletionText(JsonEmpty), CompletionText(JsonInvalid), CompletionText(JsonNull),
      CompletionText(JsonScalar), CompletionText(JsonArray),
      CompletionText(JsonEmptyObject),
      CompletionText(JsonObject(<<AreaEnv>>, <<1000>>, <<5000>>, <<ScopeLoc>>,
                                <<<<"s", "o", "l", "a", "r">>>>, <<9>>)),
      CompletionText(JsonObject(<<>>, <<0>>, <<0>>, << <<>> >>, <<>>, <<0>>)) }

NextParse ==
    \/ \E provider \in Providers, q \in ParseQueries : ParseStart(provider, q)
    \/ \E completion \in Completions : ParseSettle(completion)
    \/ ParseDone

SpecParse == InitCache /\ [][NextParse]_vars

(***************************************************************************)
(* SpecRateLimit: parseGrantQuery calls whose completion may also fail     *)
(* with a rate-limit error.                                                *)
(***************************************************************************)
NextRateLimit ==
    \/ \E provider \in Providers, q \in ParseQueries : ParseStart(provider, q)
    \/ \E completion \in Completions \cup {CompletionRateLimit} : ParseSettle(completion)
    \/ ParseDone

SpecRateLimit == InitCache /\ [][NextRateLimit]_vars

(***************************************************************************)
(* SpecList: the four operations that return grants to the caller: one     *)
(* caller, every hard filter, a service that answers or fails for good.    *)
(***************************************************************************)
\* filters that ask for a lower bound, for an upper bound, for both
FilterFundingMin == Filters(NullStr, NullStr, 50000, FUNDING_MAX_OPEN)
FilterFundingMax == Filters(NullStr, NullStr, 0, 20000)
FilterFundingBoth == Filters(<<"e", "n", "v">>, NullStr, 20000, 35000)

ListFilters ==
    {FilterAll, FilterEnv, FilterNone, FilterFundingMin, FilterFundingMax,
     FilterFundingBoth}

\* the filters of the Dashboard when it renders a list
DisplayFilters == {FilterFundingMin, FilterFundingMax, FilterFundingBoth}

NextList ==
    \/ \E u \in UserChoices, f \in ListFilters :
          SearchStart(1, <<"Q", "a">>, u[1], f, u[2])
    \/ \E r \in PrefsReads : PrefsReturn(1, r)
    \/ FetchFail(1)
    \/ FetchReturn(1)
    \/ \E b \in 1..Len(calls[1].batches) :
          \E content \in CacheContents(calls[1].batches[b].grants) :
             ServiceAnswer(1, b, content)
    \/ \E b \in 1..Len(calls[1].batches) : ServiceError(1, b, ErrConnection)
    \/ \E f \in ListFilters, ok \in BOOLEAN : filterGrantsManually(1, f, ok)
    \/ \E ok \in BOOLEAN : getAllGrants(1, ok)
    \/ RecommendStart(1)
    \/ \E r \in PrefsReads, ok \in BOOLEAN : RecommendPrefsReturn(1, r, ok)
    \/ \E f \in DisplayFilters : Show(1, f)
    \/ Return(1)

SpecList == Init /\ [][NextList]_vars

(***************************************************************************)
(* SpecBarrier: the searches of one caller, one after the other, with the  *)
(* cache kept between them; the service answers, fails for good or fails   *)
(* with a rate limit.                                                      *)
(***************************************************************************)
NextBarrier ==
    \/ \E q \in Queries, f \in {FilterAll, FilterEnv} : SearchStart(1, q, TRUE, f, TRUE)
    \/ \E r \in {PrefsRead(FALSE, FALSE, Undefined),
                  PrefsRead(FALSE, TRUE, <<<<"E", "N", "V">>>>)} : PrefsReturn(1, r)
    \/ FetchFail(1)
    \/ FetchReturn(1)
    \/ \E b \in 1..Len(calls[1].batches) :
          \E content \in CacheContents(calls[1].batches[b].grants) :
             ServiceAnswer(1, b, content)
    \/ \E b \in 1..Len(calls[1].batches), m \in {ErrRateLimit, ErrConnection} :
          ServiceError(1, b, m)
    \/ \E b \in 1..Len(calls[1].batches) : RetryAfterSleep(1, b)
    \/ Return(1)

SpecBarrier == InitCache /\ [][NextBarrier]_vars

(***************************************************************************)
(* SpecAnswer: one search without preferences; the service answers every   *)
(* batch with a list of entries in one of the shapes parseScoreResponse    *)
(* accepts.                                                                *)
(***************************************************************************)
\* an entry for the grant at position i of the batch: with or without its
\* id, with or without an index, with the reason lists wm and wdnm
ShapedItem(batch, i, withId, index, wm, wdnm) ==
    Item(IF withId THEN <<batch[i].id>> ELSE <<>>, index, <<60>>, <<>>, Undefined, wm, wdnm)

\* the entries in the order of the batch, without ids and without indexes
PositionalAnswer(batch) ==
    ArrayContent([i \in 1..Len(batch) |->
                     ShapedItem(batch, i, FALSE, <<>>, <<ReasonFit>>, <<ReasonNot>>)])

\* the entries without ids, each with the 1-based index of its grant, in
\* the reverse of the order of the batch
IndexedAnswer(batch) ==
    ArrayContent([i \in 1..Len(batch) |->
                     ShapedItem(batch, Len(batch) + 1 - i, FALSE, <<Len(batch) + 1 - i>>,
                                <<ReasonFit>>, <<ReasonNot>>)])

\* the entries without ids, each with the 0-based index of its grant
ZeroBasedAnswer(batch) ==
    ArrayContent([i \in 1..Len(batch) |->
                     ShapedItem(batch, i, FALSE, <<i - 1>>, <<ReasonFit>>, <<ReasonNot>>)])

\* the entries with ids and with the reason lists wm and wdnm
ReasonsAnswer(batch, wm, wdnm) ==
    ArrayContent([i \in 1..Len(batch) |-> ShapedItem(batch, i, TRUE, <<>>, wm, wdnm)])

LegacyAnswer(batch) == ArrayContent([i \in 1..Len(batch) |-> LegacyItem(batch[i].id)])

AnswerShapes(batch) ==
    {CompleteAnswer(batch, 98), PositionalAnswer(batch), IndexedAnswer(batch),
     ZeroBasedAnswer(batch), LegacyAnswer(batch),
     ReasonsAnswer(batch, <<ReasonFit>>, Undefined),
     ReasonsAnswer(batch, Undefined, <<ReasonNot>>),
     ReasonsAnswer(batch, <<ReasonFit>>, <<>>),
     ReasonsAnswer(batch, Undefined, Undefined)}

NextAnswer ==
    \/ \E f \in {FilterAll, FilterEnv, FilterArt} :
          SearchStart(1, <<"Q", "a">>, FALSE, f, FALSE)
    \/ FetchFail(1)
    \/ FetchReturn(1)
    \/ \E b \in 1..Len(calls[1].batches) :
          \E content \in AnswerShapes(calls[1].batches[b].grants) :
             ServiceAnswer(1, b, content)

SpecAnswer == Init /\ [][NextAnswer]_vars

(***************************************************************************)
(* SpecInterpreted: interpreter-based searches of one caller.              *)
(***************************************************************************)
\* criteria with a matching and with no matching issue area, with a scope,
\* with funding bounds, with a deadline, and the failures of the completion
InterpretedCompletions ==
    { CompletionError, CompletionText(JsonInvalid), CompletionText(JsonEmptyObject),
      CompletionText(JsonObject(<<AreaEnv>>, <<>>, <<>>, <<>>,
                                <<<<"s", "o", "l", "a", "r">>>>, <<9>>)),
      CompletionText(JsonObject(<<<<"s", "p", "o", "r", "t">>>>, <<>>, <<>>, <<>>,
                                <<>>, <<9>>)),
      CompletionText(JsonObject(<<<<"s", "p", "o", "r", "t">>>>, <<>>, <<>>,
                                <<<<"l", "o">>>>, <<>>, <<9>>)),
      CompletionText(JsonObject(<<AreaArt>>, <<20000>>, <<50000>>, <<ScopeNat>>,
                                <<>>, <<9>>)),
      CompletionText([JsonObject(<<AreaEnv>>, <<>>, <<>>, <<>>, <<>>, <<9>>)
                         EXCEPT !.deadlineBefore = << <<"1", "8">> >>]) }

NextInterpreted ==
    \/ \E q \in {<<"S", "o", "l", "a", "r", " ", "a", "i", "d">>, <<"Q", "a">>},
          hasUser \in BOOLEAN : InterpretedSearchStart(1, q, hasUser)
    \/ \E completion \in InterpretedCompletions : ParseSettle(completion)
    \/ \E ok \in BOOLEAN : InterpretedFetch(1, ok)
    \/ \E r \in {PrefsRead(FALSE, FALSE, Undefined),
                  PrefsRead(FALSE, TRUE, <<<<"E", "N", "V">>>>)},
          atMidnight \in BOOLEAN : InterpretedScore(1, r, atMidnight)
    \/ Return(1)

SpecInterpreted == InitCache /\ [][NextInterpreted]_vars

(***************************************************************************)
(* SpecPreferences: the searches of one caller, one after the other, with  *)
(* the profile preferences enabled or disabled, the cache kept between     *)
(* them and the clock.                                                     *)
(***************************************************************************)
NextPreferences ==
    \/ \E q \in Queries, useProfile \in BOOLEAN :
          SearchStart(1, q, TRUE, FilterEnv, useProfile)
    \/ \E r \in {PrefsRead(FALSE, FALSE, Undefined),
                  PrefsRead(FALSE, TRUE, <<<<"E", "N", "V">>>>)} : PrefsReturn(1, r)
    \/ FetchFail(1)
    \/ FetchReturn(1)
    \/ \E b \in 1..Len(calls[1].batches) :
          \E content \in CacheContents(calls[1].batches[b].grants) :
             ServiceAnswer(1, b, content)
    \/ \E b \in 1..Len(calls[1].batches) : ServiceError(1, b, ErrConnection)
    \/ Return(1)
    \/ Tick

SpecPreferences == InitCache /\ [][NextPreferences]_vars

(***************************************************************************)
(* SpecAlerts: requests to send-grant-alerts that may overlap.             *)
(***************************************************************************)
NextAlerts ==
    \/ \E r \in AlertRuns, preferences \in {<<>>, <<"u1">>, <<"u1", "u2">>},
          resendApiKey \in BOOLEAN : AlertStart(r, preferences, resendApiKey)
    \/ \E r \in AlertRuns : AlertStartFail(r)
    \/ \E r \in AlertRuns, passing \in {{}, {"g1"}, {"g1", "g3"}} : AlertMatch(r, passing)
    \/ \E r \in AlertRuns, ok \in BOOLEAN : AlertReadLog(r, ok)
    \/ \E r \in AlertRuns, emailSent \in BOOLEAN : AlertSendEmail(r, emailSent)
    \/ \E r \in AlertRuns, ok \in BOOLEAN : AlertLogGrant(r, ok)
    \/ \E r \in AlertRuns : AlertStamp(r)
    \/ \E r \in AlertRuns : AlertUserError(r)
    \/ \E r \in AlertRuns : AlertReturn(r)

SpecAlerts == InitCache /\ [][NextAlerts]_vars

(***************************************************************************)
(* SpecWriteup: generateGrantWriteup calls, one after the other, with one  *)
(* to MaxKeys keys.  The completion service settles every call.            *)
(***************************************************************************)
WriteupContents == {<<"#", " ", "F", "i", "t">>, <<"o", "k">>, NullStr}

\* the completion call settles: it answers or it throws
WriteupSettle ==
    \/ \E content \in WriteupContents : WriteupAnswer(content)
    \/ \E errorMessage \in ErrorMessages : WriteupError(errorMessage)

NextWriteup ==
    \/ WriteupStart
    \/ WriteupSettle
    \/ WriteupDone

SpecWriteup == Init /\ [][NextWriteup]_vars /\ WF_vars(WriteupSettle)

(***************************************************************************)
(* Vocabulary of the properties.                                           *)
(***************************************************************************)
\* scoreGrantsSemantically has returned to the search of caller c
Scored(c) == calls[c].pc = "resolved" /\ calls[c].grants # <<>>

\* ... and it computed the scores (no cache hit)
Computed(c) == Scored(c) /\ ~calls[c].cacheHit

Ids(scores) == {scores[i].grantId : i \in 1..Len(scores)}

CandidateIds(c) == {calls[c].grants[i].id : i \in 1..Len(calls[c].grants)}

\* the entries of grantId in a list of scores
EntriesOf(scores, grantId) == {i \in 1..Len(scores) : scores[i].grantId = grantId}

\* allScoresRaw of the search of caller c
RawScores(c) ==
    Flat([b \in 1..Len(calls[c].batches) |-> calls[c].batches[b].result])

\* the grant's issue area contains, whatever the case, a preferred issue area
PreferredGrant(g, userPrefs) ==
    /\ userPrefs.defined
    /\ g.issue_area # NullStr
    /\ \E k \in 1..Len(userPrefs.issueAreas) :
          includes(toLowerCase(g.issue_area), toLowerCase(userPrefs.issueAreas[k]))

\* the candidate with that id is a preferred grant of the search
PreferredId(c, grantId) ==
    \E g \in Range(calls[c].grants) :
        g.id = grantId /\ PreferredGrant(g, calls[c].userPrefs)

\* the entries of the answer that batch b of caller c received
AnswerItems(c, b) ==
    LET content == calls[c].batches[b].content
    IN  IF content.kind = "array" THEN content.items
        ELSE IF content.kind = "object" /\ content.arrays # <<>> THEN content.arrays[1]
        ELSE <<>>

\* The call of batch b succeeded: the answer has one entry for each grant
\* of the batch, in order, with its id and a score from 0 to 100, and no
\* other batch output names a grant of the batch.
Succeeded(c, b) ==
    LET batch == calls[c].batches[b]
        items == AnswerItems(c, b)
    IN  /\ batch.outcome = "parsed"
        /\ Len(items) = Len(batch.grants)
        /\ \A i \in 1..Len(items) :
              /\ ~items[i].isNull
              /\ items[i].id = <<batch.grants[i].id>>
              /\ items[i].score # <<>>
              /\ items[i].score[1] \in 0..100
        /\ \A d \in 1..Len(calls[c].batches) :
              d # b => \A i \in 1..Len(batch.grants) :
                          batch.grants[i].id \notin Ids(calls[c].batches[d].result)

\* an entry is the neutral default
IsNeutral(e) ==
    /\ e.whyDoesNotMatch = <<AnalysisIncomplete>>
    /\ e.whyMatches[1] = CouldNotFullyAnalyze

(***************************************************************************)
(* C1: scoreGrantsSemantically returns a score for every grant of its      *)
(* input list, whatever the service answered for each batch.               *)
(***************************************************************************)
C1_EveryGrantScored ==
    \A c \in Callers : Scored(c) => CandidateIds(c) \subseteq Ids(calls[c].scores)

(***************************************************************************)
(* C5: the aggregated result has at most one entry per grant id, and the   *)
(* entry kept for an id is one with the highest score among the entries of *)
(* that id in the batch outputs, in whatever order they appear.            *)
(***************************************************************************)
HighestRaw(c, grantId) ==
    LET raw == RawScores(c)
    IN  CHOOSE i \in EntriesOf(raw, grantId) :
            \A j \in EntriesOf(raw, grantId) : raw[j].score <= raw[i].score

C6_Boost ==
    \A c \in Callers : Computed(c) =>
        LET before == Deduplicate(<<>>, RawScores(c))
            after == calls[c].scores
        IN  /\ Ids(after) = Ids(before)
            /\ \A i \in 1..Len(after) :
                  LET old == before[IndexOfId(before, after[i].grantId)]
                  IN  IF PreferredId(c, after[i].grantId)
                      THEN /\ after[i].score = Min(100, old.score + 5)
                           /\ after[i].score >= old.score
                           /\ old.score < 100 => after[i].score > old.score
                           /\ after[i].score <= 100
                      ELSE after[i] = old

\* a preferred grant went from 98 to 100, another grant of the search kept 20
C6_Witness ==
    \E c \in Callers :
        /\ Computed(c)
        /\ \E i, j \in 1..Len(calls[c].scores) :
              LET before == Deduplicate(<<>>, RawScores(c))
                  hi == calls[c].scores[i]
                  lo == calls[c].scores[j]
              IN  /\ PreferredId(c, hi.grantId)
                  /\ before[IndexOfId(before, hi.grantId)].score = 98
                  /\ hi.score = 100
                  /\ ~PreferredId(c, lo.grantId)
                  /\ lo.grantId \in CandidateIds(c)
                  /\ lo.score = 20

(***************************************************************************)
(* C7: searchGrants never returns an empty list when it fetched candidates *)
(* and every one of them was scored: when every score is below the         *)
(* threshold the full scored set is returned.                              *)
(***************************************************************************)
C7_NeverEmpty ==
    \A c \in Callers :
        (Scored(c) /\ CandidateIds(c) \subseteq Ids(calls[c].scores))
            => calls[c].results # <<>>

(***************************************************************************)
(* C8: a batch whose first two calls fail with a rate-limit error and      *)
(* whose third call succeeds has, in the aggregated result, one entry for  *)
(* each of its grants, with the score of the third call and not the        *)
(* neutral default.                                                        *)
(***************************************************************************)
RetriedTwice(c, b) ==
    /\ calls[c].batches[b].retryCount = 2
    /\ calls[c].batches[b].calls = 3
    /\ Succeeded(c, b)

Failed(c, b) == calls[c].batches[b].outcome = "neutral"

\* every batch failed for good or succeeded, and there is one of each kind
OneFailedOneSucceeded(c) ==
    LET n == Len(calls[c].batches)
    IN  /\ calls[c].pc \in {"scoring", "resolved"}
        /\ \A b \in 1..n : Failed(c, b) \/ Succeeded(c, b)
        /\ \E b \in 1..n : Failed(c, b)
        /\ \E b \in 1..n : Succeeded(c, b)

\* the entry of grant i of batch b has that score, and is neutral or not
EntryIs(c, b, i, score, neutral) ==
    LET g == calls[c].batches[b].grants[i].id
    IN  /\ Cardinality(EntriesOf(calls[c].scores, g)) = 1
        /\ \A j \in EntriesOf(calls[c].scores, g) :
              /\ calls[c].scores[j].score = score
              /\ IsNeutral(calls[c].scores[j]) = neutral

\* as claimed: exactly 50, exactly the score of the service
C9_PartialFailure ==
    \A c \in Callers : OneFailedOneSucceeded(c) =>
        /\ calls[c].pc = "resolved"
        /\ Len(calls[c].scores) = Len(calls[c].grants)
        /\ \A b \in 1..Len(calls[c].batches) :
              \A i \in 1..Len(calls[c].batches[b].grants) :
                  IF Failed(c, b)
                  THEN EntryIs(c, b, i, NEUTRAL_SCORE, TRUE)
                  ELSE EntryIs(c, b, i, AnswerItems(c, b)[i].score[1], FALSE)

\* the score with the preference boost when the grant is a preferred one
WithBoost(c, b, i, score) ==
    IF PreferredId(c, calls[c].batches[b].grants[i].id)
    THEN Min(100, score + PREFERENCE_BOOST)
    ELSE score

\* as amended: 50, or the score of the service, with the preference boost
\* when the grant is a preferred one
C9_PartialFailureBoosted ==
    \A c \in Callers : OneFailedOneSucceeded(c) =>
        /\ calls[c].pc = "resolved"
        /\ Len(calls[c].scores) = Len(calls[c].grants)
        /\ \A b \in 1..Len(calls[c].batches) :
              \A i \in 1..Len(calls[c].batches[b].grants) :
                  IF Failed(c, b)
                  THEN EntryIs(c, b, i, WithBoost(c, b, i, NEUTRAL_SCORE), TRUE)
                  ELSE EntryIs(c, b, i,
                               WithBoost(c, b, i, AnswerItems(c, b)[i].score[1]), FALSE)

\* the first batch failed after its retries, the second succeeded, and a
\* preferred grant of the failed batch has 55
C9_Witness ==
    \E c \in Callers :
        /\ OneFailedOneSucceeded(c)
        /\ Failed(c, 1) /\ calls[c].batches[1].retryCount = MAX_RETRIES
        /\ Succeeded(c, 2)
        /\ Len(calls[c].scores) = 3
        /\ \E j \in 1..Len(calls[c].scores) :
              /\ calls[c].scores[j].grantId = calls[c].batches[1].grants[1].id
              /\ calls[c].scores[j].score = NEUTRAL_SCORE + PREFERENCE_BOOST

(***************************************************************************)
(* C2: every GrantScore of the pipeline (parsed from an answer, neutral    *)
(* default, boosted, read back from the cache) has a score from 0 to 100   *)
(* and defined whyMatches and whyDoesNotMatch lists.                       *)
(***************************************************************************)
AllGrantScores ==
    UNION ( {Range(calls[c].scores) : c \in Callers}
            \cup {Range(resultCache[k].results) : k \in DOMAIN resultCache}
            \cup UNION { {Range(calls[c].batches[b].result) :
                             b \in 1..Len(calls[c].batches)} : c \in Callers } )

C3_NoFabricatedGrants ==
    \A c \in Callers : calls[c].pc = "resolved" =>
        \A i \in 1..Len(calls[c].results) :
            calls[c].results[i].grant \in Range(calls[c].grants)

\* a search got from the cache the scores of another search, with a score
\* above the threshold for a grant that is no candidate of its own, and
\* returned a grant
C3_Witness ==
    \E c \in Callers :
        /\ calls[c].pc = "resolved" /\ calls[c].cacheHit
        /\ calls[c].results # <<>>
        /\ \E s \in Range(calls[c].scores) :
              /\ s.grantId \notin CandidateIds(c)
              /\ s.score >= SEARCH_THRESHOLD

(***************************************************************************)
(* C4: two scoreGrantsSemantically calls with the same query and the same  *)
(* candidates, the second within the TTL of the first, return the same     *)
(* scores, and the second makes no service call and no second boost.       *)
(***************************************************************************)
SameSearch(c1, c2) ==
    /\ c1 # c2
    /\ Scored(c1) /\ Scored(c2)
    /\ calls[c1].query = calls[c2].query
    /\ calls[c1].grants = calls[c2].grants

\* C4, for two calls less than a TTL apart: the same scores, and one of the two
\* (the second) made no service call
C4_SameScoresWithinTTL ==
    \A c1, c2 \in Callers :
        ( /\ SameSearch(c1, c2)
          /\ calls[c1].scoredAt <= calls[c2].scoredAt
          /\ calls[c2].scoredAt - calls[c1].scoredAt < CACHE_TTL_MS )
        => /\ calls[c1].scores = calls[c2].scores
           /\ calls[c1].batches = <<>> \/ calls[c2].batches = <<>>

(***************************************************************************)
(* C10: when the storage read of the candidates fails, searchGrants        *)
(* rejects with that error: it returns no list, calls the scoring service  *)
(* for no batch and writes no cache entry.                                 *)
(***************************************************************************)
C10_FetchFailureRejects ==
    \A c \in Callers : calls[c].storageError # "" =>
        /\ calls[c].pc = "rejected"
        /\ calls[c].results = <<>> /\ calls[c].scores = <<>>
        /\ calls[c].batches = <<>>
        /\ calls[c].cacheWrites = 0
        /\ \A k \in DOMAIN resultCache : resultCache[k].writer # calls[c].id

\* a search was rejected while the cache holds the entry of another search
\* of the same query
C10_Witness ==
    \E c \in Callers :
        /\ calls[c].pc = "rejected" /\ calls[c].storageError = "storage error"
        /\ \E k \in DOMAIN resultCache :
              k[1] = trim(toLowerCase(calls[c].query)) /\ resultCache[k].writer # calls[c].id

(***************************************************************************)
(* C11: parseGrantQuery returns a criteria record for every completion,    *)
(* and for a completion that failed (an error, a timeout, a text that is   *)
(* no JSON, JSON that is no object) the record holds no issue areas, null  *)
(* scope and funding bounds, the lower-cased words of the query longer     *)
(* than 3 characters as keywords, confidence 0.1 and the query.            *)
(***************************************************************************)
\* the words longer than 3 characters of the queries, in lower case
WordsOf(userQuery) ==
    CASE userQuery = <<"S", "o", "l", "a", "r", " ", "a", "i", "d">>
            -> << <<"s", "o", "l", "a", "r">> >>
      [] userQuery = <<" ", "Y", "O", "U", "T", "H", " ", " ", "a", "r", "t", "s", " ">>
            -> << <<"y", "o", "u", "t", "h">>, <<"a", "r", "t", "s">> >>
      [] userQuery = <<"f", "u", "n", "d", " ", "A", "R", "T", "S">>
            -> << <<"f", "u", "n", "d">>, <<"a", "r", "t", "s">> >>
      [] userQuery = <<"g", "r", "e", "e", "n">>
            -> << <<"g", "r", "e", "e", "n">> >>
      [] OTHER -> <<>>

\* the completion failed: it threw, or its text is no JSON object
FailedCompletion(completion) ==
    \/ completion.thrown
    \/ completion.text.kind \in {"invalid", "null", "scalar", "array"}

C11_DegradedCriteria ==
    parsing.pc = "returned" =>
        LET r == parsing.result
        IN  /\ r.originalQuery = parsing.userQuery
            /\ r.issueAreas # Undefined /\ r.keywords # Undefined
            /\ r.kpiPreferences # Undefined /\ r.excludeTerms # Undefined
            /\ FailedCompletion(parsing.completion) =>
                  /\ r.issueAreas = <<>>
                  /\ r.scope = NullStr
                  /\ r.fundingMin = NullNum /\ r.fundingMax = NullNum
                  /\ r.keywords = WordsOf(parsing.userQuery)
                  /\ r.parseConfidence = CONFIDENCE_FALLBACK

(***************************************************************************)
(* C12: the list that scoreGrantsSemantically returns is sorted by score   *)
(* descending, with ties in a fixed order, and does not depend on the      *)
(* order in which the batch calls settle.                                  *)
(***************************************************************************)
Descending(scores) ==
    \A i, j \in 1..Len(scores) : i < j => scores[i].score >= scores[j].score

\* the position of the candidate with that id in the candidate list
CandidateIndex(c, grantId) ==
    CHOOSE i \in 1..Len(calls[c].grants) : calls[c].grants[i].id = grantId

\* the first position of an entry of that id in the batch results, taken
\* batch by batch in the order of the batches
FirstRaw(c, grantId) ==
    CHOOSE i \in EntriesOf(RawScores(c), grantId) :
        \A j \in EntriesOf(RawScores(c), grantId) : i <= j

WithoutPreferences(c) ==
    ShapeResults(Aggregate(BatchResults(calls[c].batches), calls[c].grants, NoPrefs),
                 calls[c].grants)

C13_PreferencesNeverExclude ==
    \A c \in Callers : Computed(c) =>
        \A i \in 1..Len(WithoutPreferences(c)) :
            \E j \in 1..Len(calls[c].results) :
                /\ calls[c].results[j].grant = WithoutPreferences(c)[i].grant
                /\ calls[c].results[j].matchScore >= WithoutPreferences(c)[i].matchScore

\* a search with preferences returned a grant with a higher score than
\* without them, and a grant that the preferences do not match
C13_Witness ==
    \E c \in Callers :
        /\ Computed(c)
        /\ calls[c].userPrefs.defined /\ calls[c].userPrefs.issueAreas # <<>>
        /\ Len(WithoutPreferences(c)) >= 2
        /\ \E i \in 1..Len(WithoutPreferences(c)) : \E j \in 1..Len(calls[c].results) :
              /\ calls[c].results[j].grant = WithoutPreferences(c)[i].grant
              /\ calls[c].results[j].matchScore > WithoutPreferences(c)[i].matchScore
        /\ \E j \in 1..Len(calls[c].results) :
              ~PreferredId(c, calls[c].results[j].grant.id)

(***************************************************************************)
(* C14: when every service call returns or fails, a searchGrants call      *)
(* whose storage read succeeded resolves with a list and never rejects:    *)
(* every batch resolves after a bounded number of service calls, also      *)
(* when the service keeps failing with rate-limit errors.                  *)
(***************************************************************************)
C14_EventuallyResolves ==
    /\ [](\A b \in 1..Len(calls[1].batches) :
              calls[1].batches[b].calls <= MAX_RETRIES + 1)
    /\ [][calls[1].pc = "scoring" => calls'[1].pc \in {"scoring", "resolved"}]_vars
    /\ (calls[1].pc = "scoring") ~> (calls[1].pc = "resolved")

\* a search resolved after the service had failed every call of one batch
\* with a rate-limit error and had answered the other batch
C14_Witness ==
    /\ calls[1].pc = "resolved" /\ Len(calls[1].batches) = 2
    /\ \E b, d \in 1..2 :
          /\ calls[1].batches[b].outcome = "neutral"
          /\ calls[1].batches[b].retryCount = MAX_RETRIES
          /\ calls[1].batches[d].outcome = "parsed"
    /\ Len(calls[1].scores) >= 2

(***************************************************************************)
(* C15: every grant that searchGrants, filterGrantsManually, getAllGrants  *)
(* or getRecommendedGrants returns is active, and its deadline is absent   *)
(* or is today or later.                                                   *)
(***************************************************************************)
Eligible(g) ==
    /\ g.is_active
    /\ g.application_due_date = NullNum \/ g.application_due_date >= Today

C15_ReturnedGrantsEligible ==
    calls[1].pc = "resolved" =>
        \A i \in 1..Len(calls[1].results) : Eligible(calls[1].results[i].grant)

\* the same for the three operations other than getRecommendedGrants
C15_EligibleOutsideRecommend ==
    (calls[1].pc = "resolved" /\ calls[1].op # "getRecommendedGrants") =>
        \A i \in 1..Len(calls[1].results) : Eligible(calls[1].results[i].grant)

(***************************************************************************)
(* C16: a search whose candidate set differs from the set that was passed  *)
(* when the cache entry of its query was written does not use the entry:   *)
(* a search that was answered from the cache has the candidates of the     *)
(* search that wrote the entry it read.                                    *)
(***************************************************************************)
C16_ChangedCandidatesMiss ==
    \A c, d \in Callers :
        ( /\ c # d
          /\ calls[c].cacheHit
          /\ calls[d].id # 0
          /\ calls[d].id = calls[c].entryWriter )
        => calls[c].grants = calls[d].grants

(***************************************************************************)
(* C17: a cache read returns the stored scores exactly when the cache      *)
(* holds an entry for the normalized key that was written less than        *)
(* CACHE_TTL_MS before the read; no read changes the cache, so an older    *)
(* entry stays; and an entry leaves the cache only when clearCache empties *)
(* it (an overwrite keeps the key).                                        *)
(***************************************************************************)
\* caller c reads the cache in this step
CacheRead(c) ==
    /\ calls[c].pc = "fetch"
    /\ calls'[c].pc \in {"scoring", "resolved"}
    /\ Len(calls'[c].grants) > 0

ReadKey(c) == getCacheKey(calls[c].query, Len(calls'[c].grants))

WrittenWithinTTL(key) ==
    /\ key \in DOMAIN resultCache
    /\ now - resultCache[key].timestamp < CACHE_TTL_MS

C17_FreshReadsAndRetention ==
    [][ /\ \A c \in Callers :
              CacheRead(c) =>
                 /\ calls'[c].cacheHit <=> WrittenWithinTTL(ReadKey(c))
                 /\ calls'[c].cacheHit =>
                       calls'[c].scores = resultCache[ReadKey(c)].results
                 /\ ~calls'[c].cacheHit => calls'[c].pc = "scoring"
                 /\ resultCache' = resultCache
        /\ \/ DOMAIN resultCache \subseteq DOMAIN resultCache'
           \/ resultCache' = EmptyCache /\ calls' = calls
      ]_vars

\* a search has read an entry as old as the TTL: it is scoring afresh and
\* the entry is still in the cache
C17_Witness ==
    \E c \in Callers :
        LET key == getCacheKey(calls[c].query, Len(calls[c].grants))
        IN  /\ calls[c].pc = "scoring"
            /\ ~calls[c].cacheHit
            /\ calls[c].entryWriter # 0
            /\ key \in DOMAIN resultCache
            /\ resultCache[key].writer = calls[c].entryWriter
            /\ calls[c].scoredAt - resultCache[key].timestamp = CACHE_TTL_MS

(***************************************************************************)
(* C18: the funding hard filters are range-overlap tests.  With a minimum  *)
(* requested a grant is kept exactly when its upper bound is absent or is  *)
(* at least the minimum; with a maximum requested, exactly when its lower  *)
(* bound is absent or is at most the maximum.  This holds for the          *)
(* candidate fetch (of searchGrants and of filterGrantsManually) and for   *)
(* the filter over the displayed results.                                  *)
(***************************************************************************)
Overlaps(g, f) ==
    /\ f.fundingMin > 0 => (g.funding_max = NullNum \/ g.funding_max >= f.fundingMin)
    /\ f.fundingMax < FUNDING_MAX_OPEN
          => (g.funding_min = NullNum \/ g.funding_min <= f.fundingMax)

\* f without its funding bounds
NoFunding(f) == [f EXCEPT !.fundingMin = 0, !.fundingMax = FUNDING_MAX_OPEN]

GrantIdsOf(rows) == {rows[i].id : i \in 1..Len(rows)}
ResultIdsOf(rows) == {rows[i].grant.id : i \in 1..Len(rows)}

\* the candidates of a search and the rows of a manual filter
C18_FetchOverlap ==
    /\ (calls[1].op = "searchGrants" /\ calls[1].pc \in {"scoring", "resolved"}) =>
          GrantIdsOf(calls[1].grants) =
             {g.id : g \in {h \in Range(fetchAllActiveGrants(NoFunding(calls[1].filters))) :
                               Overlaps(h, calls[1].filters)}}
    /\ (calls[1].op = "filterGrantsManually" /\ calls[1].pc = "resolved") =>
          ResultIdsOf(calls[1].results) =
             {g.id : g \in {h \in Range(fetchAllActiveGrants(NoFunding(calls[1].filters))) :
                               Overlaps(h, calls[1].filters)}}

\* the rows on display
C18_DisplayOverlap ==
    calls[1].displayed =>
        ResultIdsOf(calls[1].shown) =
           {r.grant.id : r \in {q \in Range(calls[1].results) :
                                   /\ DisplayPredicate(q.grant, NoFunding(calls[1].displayFilters))
                                   /\ Overlaps(q.grant, calls[1].displayFilters)}}

C18_FundingOverlap == C18_FetchOverlap /\ C18_DisplayOverlap

\* the maximum filter of the display alone
C18_DisplayMaxOverlap ==
    (calls[1].displayed /\ calls[1].displayFilters = FilterFundingMax) =>
        ResultIdsOf(calls[1].shown) =
           {r.grant.id : r \in {q \in Range(calls[1].results) :
                                   Overlaps(q.grant, calls[1].displayFilters)}}

(***************************************************************************)
(* C19: on rate-limit errors scoreGrantBatch retries the same batch with   *)
(* the credential it was first given, and it makes at most 3 service calls *)
(* for one batch before it returns the neutral default.                    *)
(***************************************************************************)
C19_SameCredentialThreeCalls ==
    \A b \in 1..Len(calls[1].batches) :
        /\ calls[1].batches[b].grants =
              DispatchBatches(calls[1].grants, poolSize)[b].grants
        /\ calls[1].batches[b].client =
              DispatchBatches(calls[1].grants, poolSize)[b].client
        /\ calls[1].batches[b].calls <= 3

\* the same with a cap of MAX_RETRIES retries after the first call
C19_SameCredentialThreeRetries ==
    \A b \in 1..Len(calls[1].batches) :
        /\ calls[1].batches[b].grants =
              DispatchBatches(calls[1].grants, poolSize)[b].grants
        /\ calls[1].batches[b].client =
              DispatchBatches(calls[1].grants, poolSize)[b].client
        /\ calls[1].batches[b].retryCount <= MAX_RETRIES
        /\ calls[1].batches[b].calls = calls[1].batches[b].retryCount + 1

(***************************************************************************)
(* C20: every failure of a batch that is not retried gives every grant of  *)
(* the batch the neutral score 50 with the degraded-analysis reasons: a    *)
(* service error that is no rate-limit error, a rate-limit error after the *)
(* last retry, and an answer that does not parse or is neither an array    *)
(* nor an object that wraps an array.                                      *)
(***************************************************************************)
\* the answer of batch b is no list of entries
Undecodable(b) ==
    LET content == calls[1].batches[b].content
    IN  /\ calls[1].batches[b].outcome = "parsed"
        /\ \/ content.kind \in {"invalid", "scalar"}
           \/ content.kind = "object" /\ content.arrays = <<>>

C20_FailuresGiveNeutral ==
    \A b \in 1..Len(calls[1].batches) :
        ( /\ calls[1].batches[b].status = "resolved"
          /\ Failed(1, b) \/ Undecodable(b) )
        => calls[1].batches[b].result = NeutralScores(calls[1].batches[b].grants)

\* the same for the service errors alone
C20_ErrorsGiveNeutral ==
    \A b \in 1..Len(calls[1].batches) :
        (calls[1].batches[b].status = "resolved" /\ Failed(1, b))
        => /\ calls[1].batches[b].result = NeutralScores(calls[1].batches[b].grants)
           /\ \A i \in 1..Len(calls[1].batches[b].result) :
                 /\ calls[1].batches[b].result[i].score = NEUTRAL_SCORE
                 /\ IsNeutral(calls[1].batches[b].result[i])

(***************************************************************************)
(* C21: scoreGrantsSemantically is a barrier.  On a cache miss it          *)
(* aggregates, writes the cache and returns only when every batch of the   *)
(* call has resolved, retries included; it writes the cache once per       *)
(* cache-missing call and never on a cache hit; what it returns and what   *)
(* it caches is the aggregate of all batches.                              *)
(***************************************************************************)
\* the only step that changes the cache: a scoring call resolves with all
\* its batches resolved, and stores its scores under its key
TerminalWrite(c) ==
    /\ calls[c].pc = "scoring"
    /\ calls'[c].pc = "resolved"
    /\ AllResolved(calls'[c].batches)
    /\ calls'[c].cacheWrites = 1
    /\ LET key == getCacheKey(calls[c].query, Len(calls[c].grants))
       IN  /\ DOMAIN resultCache' = DOMAIN resultCache \cup {key}
           /\ resultCache'[key].results = calls'[c].scores
           /\ \A k \in DOMAIN resultCache \ {key} : resultCache'[k] = resultCache[k]

C21_Barrier ==
    /\ [](\A c \in Callers :
            /\ calls[c].pc = "scoring" =>
                  /\ ~AllResolved(calls[c].batches)
                  /\ calls[c].cacheWrites = 0
                  /\ calls[c].scores = <<>> /\ calls[c].results = <<>>
            /\ Computed(c) =>
                  /\ AllResolved(calls[c].batches)
                  /\ calls[c].cacheWrites = 1
                  /\ calls[c].scores =
                        Aggregate([b \in 1..Len(calls[c].batches) |->
                                      calls[c].batches[b].result],
                                  calls[c].grants, calls[c].userPrefs)
            /\ calls[c].cacheHit => calls[c].cacheWrites = 0 /\ calls[c].batches = <<>>)
    /\ [][ /\ resultCache' # resultCache => \E c \in Callers : TerminalWrite(c)
           /\ \A c \in Callers :
                 (calls[c].pc = "scoring" /\ calls'[c].pc # "scoring") => TerminalWrite(c)
         ]_vars

\* a search of two batches has returned: one batch was retried after a rate
\* limit, the cache was written once and holds the scores of both batches
C21_Witness ==
    /\ Computed(1)
    /\ Len(calls[1].batches) = 2
    /\ \E b \in 1..2 : calls[1].batches[b].retryCount > 0
    /\ calls[1].cacheWrites = 1
    /\ Len(calls[1].scores) = 3
    /\ resultCache[getCacheKey(calls[1].query, 3)].results = calls[1].scores

(***************************************************************************)
(* C22: when two scoreGrantsSemantically calls with the same cache key     *)
(* overlap, the entry of the key is at every moment the complete           *)
(* aggregated result of one call, the one that wrote last: each write      *)
(* replaces the entry with the writer's aggregate of all its batches, and  *)
(* the entry is never a partial result nor a mixture of two results.       *)
(***************************************************************************)
KeyOf(c) == getCacheKey(calls[c].query, Len(calls[c].grants))

CompleteAggregate(c) ==
    /\ AllResolved(calls[c].batches)
    /\ calls[c].scores =
          Aggregate([b \in 1..Len(calls[c].batches) |-> calls[c].batches[b].result],
                    calls[c].grants, calls[c].userPrefs)

C22_LastWriteWins ==
    /\ [](\A k \in DOMAIN resultCache, c \in Callers :
            (calls[c].id # 0 /\ calls[c].id = resultCache[k].writer) =>
                /\ Computed(c)
                /\ k = KeyOf(c)
                /\ CompleteAggregate(c)
                /\ resultCache[k].results = calls[c].scores)
    /\ [][\A c \in Callers :
              (calls[c].pc = "scoring" /\ calls'[c].pc = "resolved") =>
                  /\ KeyOf(c) \in DOMAIN resultCache'
                  /\ resultCache'[KeyOf(c)].writer = calls[c].id
                  /\ resultCache'[KeyOf(c)].results = calls'[c].scores
         ]_vars

\* two calls with one key were scoring at the same time and came to
\* different scores; the entry is the result of the second to finish,
\* which is the one that started first
C22_Witness ==
    \E c, d \in Callers :
        /\ c # d
        /\ Computed(c) /\ Computed(d)
        /\ KeyOf(c) = KeyOf(d)
        /\ calls[c].id < calls[d].id
        /\ calls[d].id \notin calls[c].priorIds
        /\ calls[d].cacheWrites = 1 /\ calls[c].cacheWrites = 1
        /\ calls[d].entryWriter = 0
        /\ calls[c].scores # calls[d].scores
        /\ KeyOf(c) \in DOMAIN resultCache
        /\ resultCache[KeyOf(c)].writer = calls[c].id
        /\ resultCache[KeyOf(c)].results = calls[c].scores

(***************************************************************************)
(* C23: batch i, counting from 0, holds the grants from i * BATCH_SIZE on  *)
(* and is sent to credential i mod pool size, for every number of          *)
(* candidates and every pool size from 1; no step changes the pool or the  *)
(* credential of a dispatched batch.                                       *)
(***************************************************************************)
C23_RoundRobin ==
    /\ [](/\ poolSize >= 1
          /\ \A c \in Callers :
                /\ calls[c].pc = "scoring" \/ Computed(c) =>
                      /\ Len(calls[c].batches) * BATCH_SIZE >= Len(calls[c].grants)
                      /\ (Len(calls[c].batches) - 1) * BATCH_SIZE < Len(calls[c].grants)
                /\ \A b \in 1..Len(calls[c].batches) :
                      /\ calls[c].batches[b].client = (b - 1) % poolSize
                      /\ calls[c].batches[b].grants =
                            SubSeq(calls[c].grants, (b - 1) * BATCH_SIZE + 1,
                                   Min(b * BATCH_SIZE, Len(calls[c].grants))))
    /\ [][ /\ poolSize' = poolSize
           /\ \A c \in Callers :
                 \A b \in 1..Len(calls[c].batches) :
                     calls'[c].id = calls[c].id =>
                         /\ b <= Len(calls'[c].batches)
                         /\ calls'[c].batches[b].client = calls[c].batches[b].client
         ]_vars

\* two credentials and two batches: the second batch has the second
\* credential, also after the first batch was retried
C23_Witness ==
    /\ poolSize = 2
    /\ Computed(1)
    /\ Len(calls[1].batches) = 2
    /\ calls[1].batches[1].client = 0 /\ calls[1].batches[2].client = 1
    /\ calls[1].batches[1].retryCount > 0

(***************************************************************************)
(* C24: parseScoreResponse matches an entry to a grant of the batch by its *)
(* id or, when the entry has no id, by its 1-based position in the batch:  *)
(* an answer that lists the grants of the batch in order without ids gives *)
(* one score per grant.                                                    *)
(***************************************************************************)
\* a parsed batch whose answer is a list of entries
ParsedList(b) ==
    /\ calls[1].batches[b].status = "resolved"
    /\ calls[1].batches[b].outcome = "parsed"
    /\ calls[1].batches[b].content.kind = "array"
    /\ \A k \in 1..Len(calls[1].batches[b].content.items) :
          ~calls[1].batches[b].content.items[k].isNull

\* the answer has one entry per grant of the batch and no entry has an id
InOrderWithoutIds(b) ==
    /\ ParsedList(b)
    /\ Len(calls[1].batches[b].content.items) = Len(calls[1].batches[b].grants)
    /\ \A k \in 1..Len(calls[1].batches[b].content.items) :
          /\ calls[1].batches[b].content.items[k].id = <<>>
          /\ calls[1].batches[b].content.items[k].index \in {<<>>, <<k>>}

C24_MatchedByIdOrPosition ==
    \A b \in 1..Len(calls[1].batches) :
        InOrderWithoutIds(b) =>
            /\ Len(calls[1].batches[b].result) = Len(calls[1].batches[b].grants)
            /\ \A i \in 1..Len(calls[1].batches[b].result) :
                  calls[1].batches[b].result[i].grantId = calls[1].batches[b].grants[i].id

\* what holds: an entry is matched by its id, else by its index field when
\* that is the 1-based position of a grant of the batch, else it is dropped
C24_MatchedByIdOrIndexField ==
    \A b \in 1..Len(calls[1].batches) :
        ParsedList(b) =>
            LET items == calls[1].batches[b].content.items
                grants == calls[1].batches[b].grants
                kept == SelectSeq(items, LAMBDA it :
                            \/ it.id # <<>>
                            \/ it.index # <<>> /\ it.index[1] \in 1..Len(grants))
            IN  /\ Len(calls[1].batches[b].result) = Len(kept)
                /\ \A i \in 1..Len(kept) :
                      calls[1].batches[b].result[i].grantId =
                         IF kept[i].id # <<>> THEN kept[i].id[1]
                         ELSE grants[kept[i].index[1]].id

(***************************************************************************)
(* C25: every GrantScore parsed from a service answer has non-empty reason *)
(* lists (reasons, whyMatches, whyDoesNotMatch): a generic placeholder     *)
(* stands in for the positive or the negative reasons the service omitted. *)
(***************************************************************************)
C25_NonEmptyReasonLists ==
    \A b \in 1..Len(calls[1].batches) :
        ParsedList(b) =>
            \A i \in 1..Len(calls[1].batches[b].result) :
                /\ Len(calls[1].batches[b].result[i].reasons) > 0
                /\ Len(calls[1].batches[b].result[i].whyMatches) > 0
                /\ Len(calls[1].batches[b].result[i].whyDoesNotMatch) > 0

\* what holds: reasons and whyMatches are never empty
C25_NonEmptyPositiveLists ==
    \A b \in 1..Len(calls[1].batches) :
        ParsedList(b) =>
            \A i \in 1..Len(calls[1].batches[b].result) :
                /\ Len(calls[1].batches[b].result[i].reasons) > 0
                /\ Len(calls[1].batches[b].result[i].whyMatches) > 0

(***************************************************************************)
(* C26: the interpreter-based search shapes its result by two thresholds.  *)
(* When a grant scores GOOD_MATCH or more, exactly the grants that score   *)
(* less than LOW_MATCH are removed; when none does, every scored grant is  *)
(* returned; the result is not empty when the fetched set is not empty.    *)
(***************************************************************************)
InterpretedDone(c) ==
    calls[c].op = "interpreted searchGrants" /\ calls[c].pc = "resolved"

C26_DualThreshold ==
    InterpretedDone(1) =>
        LET ranked == calls[1].ranked
            good == \E i \in 1..Len(ranked) : ranked[i].matchScore >= GOOD_MATCH
        IN  /\ Len(ranked) = Len(calls[1].grants)
            /\ {ranked[i].grant.id : i \in 1..Len(ranked)} = GrantIdsOf(calls[1].grants)
            /\ good => calls[1].results =
                           SelectSeq(ranked, LAMBDA r : ~(r.matchScore < LOW_MATCH))
            /\ ~good => calls[1].results = ranked
            /\ calls[1].grants # <<>> => calls[1].results # <<>>
            /\ \A i \in 1..(Len(ranked) - 1) :
                  ranked[i].matchScore >= ranked[i + 1].matchScore

\* a grant reaches GOOD_MATCH and a grant below LOW_MATCH was removed
C26_Witness ==
    /\ InterpretedDone(1)
    /\ \E i \in 1..Len(calls[1].ranked) : calls[1].ranked[i].matchScore >= GOOD_MATCH
    /\ \E i \in 1..Len(calls[1].ranked) : calls[1].ranked[i].matchScore < LOW_MATCH
    /\ Len(calls[1].results) < Len(calls[1].ranked)
    /\ Len(calls[1].results) > 0

\* no grant reaches GOOD_MATCH and a grant below LOW_MATCH is returned
C26_WitnessNoGoodMatch ==
    /\ InterpretedDone(1)
    /\ \A i \in 1..Len(calls[1].ranked) : calls[1].ranked[i].matchScore < GOOD_MATCH
    /\ \E i \in 1..Len(calls[1].results) : calls[1].results[i].matchScore < LOW_MATCH

(***************************************************************************)
(* C27: a search with useProfilePreferences = false returns scores of the  *)
(* query only: no returned grant carries the preference note (and so the   *)
(* boost), also when a search for the same query and candidate count ran   *)
(* with the preferences less than the cache TTL earlier.                   *)
(***************************************************************************)
\* the result carries the note that the preference boost appends
CarriesPreferenceNote(r) ==
    \/ MatchesYourPreferences \in Range(r.matchReasons)
    \/ MatchesYourProfilePreferences \in Range(r.whyMatches)

QueryOnlyDone(c) ==
    /\ calls[c].op = "searchGrants"
    /\ calls[c].pc = "resolved"
    /\ ~calls[c].useProfile

C27_QueryOnlyWithoutPreferences ==
    QueryOnlyDone(1) =>
        \A i \in 1..Len(calls[1].results) : ~CarriesPreferenceNote(calls[1].results[i])

\* the same, for the searches that score the candidates themselves
C27_QueryOnlyWhenScored ==
    (QueryOnlyDone(1) /\ ~calls[1].cacheHit) =>
        \A i \in 1..Len(calls[1].results) : ~CarriesPreferenceNote(calls[1].results[i])

\* a search without the preferences scored candidates and returned them
C27_ScoredWitness ==
    /\ QueryOnlyDone(1)
    /\ ~calls[1].cacheHit
    /\ calls[1].results # <<>>

(***************************************************************************)
(* C28: a rate-limit failure of the query-interpretation call is retried   *)
(* (a bounded number of times, with backoff), and parseGrantQuery returns  *)
(* the keyword-only fallback criteria only after those retries: a call     *)
(* that returned after a rate-limit failure has made more than one         *)
(* completion call.                                                        *)
(***************************************************************************)
RateLimitedReturn ==
    parsing.pc = "returned" /\ parsing.completion = CompletionRateLimit

C28_FallbackOnlyAfterRetries ==
    RateLimitedReturn => parsing.attempts > 1

\* what the call does: the fallback criteria after the first failure
C28_FallbackAtFirstFailure ==
    RateLimitedReturn =>
        /\ parsing.attempts = 1
        /\ parsing.result = FallbackCriteria(parsing.userQuery)

(***************************************************************************)
(* C29: send-grant-alerts never sends the same grant to the same user      *)
(* twice: over any sequence of requests, overlapping ones included, a      *)
(* (user, grant) pair is in at most one email that was sent.               *)
(***************************************************************************)
C29_PairSentAtMostOnce ==
    \A i, j \in 1..Len(sentEmails) :
        (i # j /\ sentEmails[i].to = sentEmails[j].to)
            => Range(sentEmails[i].grants) \cap Range(sentEmails[j].grants) = {}

(***************************************************************************)
(* C30: generateGrantWriteup always terminates: whatever the completion    *)
(* service answers and however many keys are configured, a call that was   *)
(* started returns a writeup or throws its failure error, also when every  *)
(* key keeps answering with rate-limit errors.                             *)
(***************************************************************************)
C30_Terminates ==
    (writeup.pc = "calling") ~> (writeup.pc \in {"returned", "thrown"})

\* with one key the call settles after one service call
C30_OneKeyOneCall ==
    poolSize = 1 => writeup.serviceCalls <= 1

\* a call that is answered, or that fails with no rate limit, ends at once
C30_EndsUnlessRateLimited ==
    [][(writeup.pc = "calling" /\ writeup'.pc = "calling")
          => (poolSize > 1 /\ currentKeyIndex' = rotateApiKey(currentKeyIndex, poolSize))]_vars
====
